---- MODULE Spec2Model ----
(***************************************************************************)
(* A model of the concurrent processing core of the image captioner:       *)
(*   src/src/gemini_client.py    RateLimiter, GeminiClient                 *)
(*   src/src/image_processor.py  ImageProcessor                            *)
(*   src/src/file_manager.py     FileManager                               *)
(*   src/main.py                 signal_handler, validate_api_keys,        *)
(*                               process_directory, fix_error_files        *)
(*   src/main_s3.py              is_error_response, process_s3_worker_mode *)
(*                                                                         *)
(* The specifications of the module:                                       *)
(*   Spec        one machine running process_directory / fix_error_files   *)
(*               repeatedly over the same disk (inputs, outputs,           *)
(*               checkpoint), with a worker pool, signals and kills;       *)
(*   SpecBatch   one run of process_directory, the service returning any   *)
(*               caption or failure marker;                                *)
(*   SpecResume  runs of process_directory that signals interrupt, every    *)
(*               service call succeeding, the input directory changing     *)
(*               between runs;                                             *)
(*   SpecClient  threads calling process_image_with_gemini on one          *)
(*               GeminiClient behind its RateLimiter, with a clock;        *)
(*   SpecRotate  threads calling GeminiClient.rotate_api_key on a pool of  *)
(*               1..NKeys credentials;                                     *)
(*   SpecProcessor  one batch of ImageProcessor where calls and writes     *)
(*               can raise and the shutdown flag is set during the batch;  *)
(*   SpecCheckpoint  one thread calling FileManager's save_checkpoint,     *)
(*               load_checkpoint and remove_checkpoint;                    *)
(*   SpecBackoff  calls of exponential_backoff_with_jitter;                *)
(*   SpecStartup  the start of main() over any list of configured keys;    *)
(*   SpecConfigured  one thread calling process_image_with_gemini under    *)
(*               each configured key rotation delay;                       *)
(*   SpecOnce    one run of process_directory without shutdown request,    *)
(*               the threads scheduled fairly;                             *)
(*   SpecCall    one thread calling process_image_with_gemini over         *)
(*               1..NKeys credentials, scheduled fairly, the clock         *)
(*               advancing while it sleeps;                                *)
(*   SpecS3      runs of process_s3_worker_mode over one checkpoint.       *)
(***************************************************************************)
EXTENDS Integers, Sequences, FiniteSets, TLC

(***************************************************************************)
(* Bounds of the model.                                                    *)
(***************************************************************************)
\* input images of distinct base names a directory holds at most
MaxItems == 2
\* threads of the ThreadPoolExecutor (max_workers)
NWorkers == 2
\* program runs over the same disk
MaxRuns == 2
\* threads calling process_image_with_gemini
NCallers == 2
\* credentials in api_keys
NKeys == 2
\* largest max_retries a call is given
MaxRetries == 1
\* calls of process_image_with_gemini started in one behaviour
MaxCallsTotal == 3
\* the clock stops here
MaxTime == 5
\* RateLimiter.max_calls and RateLimiter.period (seconds) of the model
RateMaxCalls == 1
RatePeriod == 3
\* direct calls of rotate_api_key in one behaviour
MaxRotations == 6

(***************************************************************************)
(* Text.  A text is a sequence of words; str.lower() maps every word to    *)
(* its lower-case form and `phrase in text' is containment of a            *)
(* contiguous run of words.                                                *)
(***************************************************************************)
LowerTable ==
    << <<"An", "an">>, <<"Error", "error">>, <<"INTERNAL", "internal">>,
       <<"Service", "service">>, <<"Unavailable", "unavailable">>,
       <<"Server", "server">>, <<"Max", "max">>, <<"Gemini", "gemini">>,
       <<"RESOURCE_EXHAUSTED", "resource_exhausted">>, <<"The", "the">>,
       <<"Please", "please">>, <<"No", "no">>, <<"Content", "content">>,
       <<"Response", "response">>, <<"Unexpected", "unexpected">>,
       <<"All", "all">>, <<"API", "api">>, <<"UNAVAILABLE", "unavailable">>,
       <<"Rate", "rate">>, <<"Too", "too">>, <<"Quota", "quota">>,
       <<"INVALID_ARGUMENT", "invalid_argument">>, <<"URL", "url">>,
       <<"SAFETY", "safety">>, <<"OTHER", "other">>, <<"A", "a">>,
       <<"JPG", "jpg">> >>

\* the words of LowerTable that str.lower() changes, each with its lower-case
\* form
LowerOf ==
    [w \in {LowerTable[i][1] : i \in 1..Len(LowerTable)} |->
        LowerTable[CHOOSE i \in 1..Len(LowerTable) : LowerTable[i][1] = w][2]]

\* str.lower() on one word
LowerWord(w) == IF w \in DOMAIN LowerOf THEN LowerOf[w] ELSE w

\* str.lower()
Lower(text) == [i \in 1..Len(text) |-> LowerWord(text[i])]

\* phrase in text
Contains(text, phrase) ==
    \E i \in 1..(Len(text) - Len(phrase) + 1) :
        SubSeq(text, i, i + Len(phrase) - 1) = phrase

\* config.ERROR_MESSAGES
ERROR_MESSAGES ==
    << <<"An", "internal", "error", "has", "occurred", ".", "Please", "retry",
         "or", "report", "in", "URL">>,
       <<"Error", "in", "process_and_save", "for">>,
       <<"500", "An", "internal", "error", "has", "occurred">>,
       <<"500", "INTERNAL">>,
       <<"503", "Service", "Unavailable">>,
       <<"Server", "is", "overloaded">>,
       <<"Error", "processing">>,
       <<"error">>,
       <<"Max", "retries">>,
       <<"Error", "processing", "with", "Gemini">>,
       <<"RESOURCE_EXHAUSTED", ".">>,
       <<"The", "model", "is", "overloaded", ".">> >>

\* config.RATE_LIMIT_MESSAGES
RATE_LIMIT_MESSAGES ==
    << <<"Error", "code", ":", "429">>,
       <<"insufficient_quota">>,
       <<"exceeded", "your", "current", "quota">>,
       <<"Rate", "limit", "exceeded">>,
       <<"Too", "many", "requests">>,
       <<"RESOURCE_EXHAUSTED">>,
       <<"Quota", "exceeded">>,
       <<"quota_exceeded">>,
       <<"rate_limit_exceeded">> >>

\* the error codes of the retryable test (case-sensitive, no lower())
RETRYABLE_CODES ==
    << <<"500">>, <<"503">>, <<"INTERNAL">>, <<"UNAVAILABLE">>,
       <<"Server", "is", "overloaded">> >>

\* error_msg.lower() for every error_msg of ERROR_MESSAGES, and msg.lower()
\* for every msg of RATE_LIMIT_MESSAGES
ErrorMessagesLower == [i \in 1..Len(ERROR_MESSAGES) |-> Lower(ERROR_MESSAGES[i])]
RateLimitMessagesLower ==
    [i \in 1..Len(RATE_LIMIT_MESSAGES) |-> Lower(RATE_LIMIT_MESSAGES[i])]

\* has_error_content without the generic "error" entry of ERROR_MESSAGES
has_error_content_NoGenericEntry(content) ==
    LET content_lower == Lower(content)
    IN  \E i \in 1..Len(ERROR_MESSAGES) :
            /\ ERROR_MESSAGES[i] # <<"error">>
            /\ Contains(content_lower, ErrorMessagesLower[i])

\* ImageProcessor.has_error_content
has_error_content(content) ==
    LET content_lower == Lower(content)
    IN  \E i \in 1..Len(ERROR_MESSAGES) :
            Contains(content_lower, ErrorMessagesLower[i])

\* a scan-side classifier whose phrase set lacks the generic "error" entry
fm_has_error_content_OwnPhrases(content) ==
    LET content_lower == Lower(content)
    IN  \E i \in 1..Len(ERROR_MESSAGES) :
            /\ i # 8
            /\ Contains(content_lower, ErrorMessagesLower[i])

\* FileManager.has_error_content, over the ERROR_MESSAGES file_manager.py
\* imports from config
fm_has_error_content(content) ==
    LET content_lower == Lower(content)
    IN  \E i \in 1..Len(ERROR_MESSAGES) :
            Contains(content_lower, ErrorMessagesLower[i])

\* a rate-limit test that gives way to the retryable error codes
is_rate_limit_error_UnlessRetryable(error_str) ==
    /\ \E i \in 1..Len(RATE_LIMIT_MESSAGES) :
            Contains(Lower(error_str), RateLimitMessagesLower[i])
    /\ ~\E i \in 1..Len(RETRYABLE_CODES) : Contains(error_str, RETRYABLE_CODES[i])

\* GeminiClient.is_rate_limit_error
is_rate_limit_error(error_str) ==
    LET error_lower == Lower(error_str)
    IN  \E i \in 1..Len(RATE_LIMIT_MESSAGES) :
            Contains(error_lower, RateLimitMessagesLower[i])

\* a test that takes every exception for a transient server error
is_retryable_Always(error_str) == TRUE

\* the is_retryable test of process_image_with_gemini
is_retryable(error_str) ==
    \E i \in 1..Len(RETRYABLE_CODES) : Contains(error_str, RETRYABLE_CODES[i])

\* json.dumps({"error": msg}): the message between the JSON framing
JsonError(msg) == <<"{", "\"", "error", "\"", ":", "\"">> \o msg \o <<"\"", "}">>

(***************************************************************************)
(* The failure markers process_image_with_gemini returns.  path is the     *)
(* text of the image path, e the text of the exception.                    *)
(***************************************************************************)
MarkNoCandidates(path) ==
    JsonError(<<"No", "candidates", "returned", "for">> \o path)
MarkNoContentParts(path) ==
    JsonError(<<"No", "content", "parts", "in", "response", "for">> \o path)
MarkSafety(path) ==
    JsonError(<<"Content", "blocked", "by", "safety", "filters", "for">> \o path)
MarkMaxTokens(path) ==
    JsonError(<<"Response", "truncated", "due", "to", "max", "tokens", "for">> \o path)
MarkUnexpectedFinish(path) ==
    JsonError(<<"Unexpected", "finish", "reason", "OTHER", "for">> \o path)
MarkAllKeysRateLimited(path, e) ==
    JsonError(<<"All", "API", "keys", "rate", "limited", "for">> \o path \o <<":">> \o e)
MarkErrorProcessing(path, e) ==
    JsonError(<<"Error", "processing", "with", "Gemini">> \o path \o <<":">> \o e)
MarkRetryLoop(path) ==
    JsonError(<<"Unexpected", "error", "in", "retry", "loop", "for">> \o path)

\* messages of the exceptions generate_content raises
ErrRateLimit == <<"429", "RESOURCE_EXHAUSTED", ".", "Quota", "exceeded">>
ErrServer == <<"503", "UNAVAILABLE", ".", "The", "model", "is", "overloaded", ".">>
ErrTerminal == <<"400", "INVALID_ARGUMENT", ".", "bad", "image">>
\* a message matching a rate-limit phrase and a retryable code
ErrBoth == <<"429", "Too", "many", "requests", ",", "503", "UNAVAILABLE">>
ErrorStrings == {ErrRateLimit, ErrServer, ErrTerminal, ErrBoth}

\* captions the service returns on success
CaptionClean == <<"A", "cat", "on", "a", "mat">>
CaptionMentionsError == <<"A", "screen", "showing", "Error", "404">>
Captions == {CaptionClean, CaptionMentionsError}

\* the exception messages that take the rate-limit branch, and the others
RateLimitErrors == {x \in ErrorStrings : is_rate_limit_error(x)}
OtherErrors == {x \in ErrorStrings : ~is_rate_limit_error(x)}

\* every failure marker a call for path can return
FailureMarkers(path) ==
    {MarkNoCandidates(path), MarkNoContentParts(path), MarkSafety(path),
     MarkMaxTokens(path), MarkUnexpectedFinish(path), MarkRetryLoop(path)}
    \cup {MarkAllKeysRateLimited(path, e) : e \in RateLimitErrors}
    \cup {MarkErrorProcessing(path, e) : e \in OtherErrors}

\* every value a call for path can return
ClientReturns(path) == Captions \cup FailureMarkers(path)
\* the two returns the runs over a shared disk draw from
SampleReturns(path) == {CaptionClean, MarkNoCandidates(path)}

(***************************************************************************)
(* The disk and the program of one machine.                                *)
(***************************************************************************)
\* config.IMAGE_EXTENSIONS
IMAGE_EXTENSIONS == <<"png", "jpg", "jpeg", "gif", "bmp">>
\* the extensions the input images of the model carry
InputExts == {"png", "jpg", "JPG"}
BaseNames == <<"a", "b", "c", "d">>
Bases == {BaseNames[i] : i \in 1..MaxItems}
\* a stable identifier: the image's path relative to INPUT_DIR
Identifiers == [base : Bases, ext : InputExts]
\* the input directories of the model: 1..MaxItems png images of distinct
\* base names, and the directories where a.jpg or a.JPG lies beside a.png
\* (both are captioned into a.txt)
PngImages(n) == {[base |-> BaseNames[i], ext |-> "png"] : i \in 1..n}
InputDirs ==
    {PngImages(n) : n \in 1..MaxItems}
    \cup {PngImages(n) \cup {[base |-> "a", ext |-> e]} :
             n \in 1..(MaxItems - 1), e \in {"jpg", "JPG"}}

Workers == 1..NWorkers

\* os.path.join(INPUT_DIR, relative_path) as text
PathText(id) == <<"images", "/", id.base, ".", id.ext>>

\* a missing file, and a pool thread without task
NoFile == <<"absent">>
NoTask == [base |-> "", ext |-> ""]
\* the checkpoint file: absent, opened for writing and not yet written
\* (truncated), or holding the pickle of a set
CkptAbsent == [state |-> "absent", ids |-> {}]
CkptTruncated == [state |-> "truncated", ids |-> {}]
CkptOf(S) == [state |-> "valid", ids |-> S]

VARIABLES
    \* ---- disk
    inputFiles,         \* the images under INPUT_DIR
    outputs,            \* base name -> text of OUTPUT_DIR/<base>.txt, or NoFile
    ckpt,               \* checkpoint.pkl
    \* ---- the process (main.py)
    mainpc,             \* position of the main thread
    mode,               \* "process" (process_directory), "fix" (fix_error_files)
                        \* or "s3_worker" (process_s3_worker_mode)
    retry_errors,       \* process_directory's retry_errors argument
    shutdown_requested, \* main.py's module-level flag
    proc_shutdown,      \* ImageProcessor.shutdown_requested
    processed_files,    \* the in-memory ProcessedSet
    tasks,              \* the task list of process_images_batch
    nsubmitted,         \* tasks submitted to the executor so far
    queue,              \* the executor's work queue
    wpc, wtask, wresult, wbuf,  \* the pool's threads
    pbar,               \* tqdm's counter, counted from its initial value
    runs,               \* runs started so far
    removed,            \* this run removed the checkpoint file
    killed,             \* the last run ended by a kill
    \* ---- GeminiClient and RateLimiter (SpecClient)
    now, calls, limiter_lock, current_key_index, key_stats,
    cpc, attempt, keys_tried, max_retries, wake, solo, reqlog, cret, cerr,
    requests, ncalls,
    nkeys,              \* len(self.api_keys)
    api_keys,           \* config.GENAI_API_KEYS, "" for an empty entry
    key_rotation_delay, \* process_directory's key_rotation_delay argument
    caption,            \* process_s3_worker_mode: the value the Service Client returned
    img_pos,            \* process_s3_worker_mode: position in remaining_images
    key_rotation_lock,  \* the thread holding GeminiClient.key_rotation_lock, or 0
    old_index,          \* rotate_api_key's read of current_key_index, per thread
    rret,               \* the index rotate_api_key returned to a direct caller
    nrotcalls,          \* direct calls of rotate_api_key made so far
    \* ---- direct calls of FileManager and of the backoff function
    saved_set,          \* the set a caller hands to save_checkpoint
    loaded,             \* what load_checkpoint returned to that caller
    backoff_args,       \* the arguments of exponential_backoff_with_jitter
    backoff_ret         \* the delay it returned, in hundredths of a second

diskVars == <<inputFiles, outputs, ckpt>>
directVars == <<saved_set, loaded, backoff_args, backoff_ret>>
procVars == <<mainpc, mode, retry_errors, shutdown_requested, proc_shutdown,
              processed_files, tasks, nsubmitted, queue, pbar, runs, removed, killed>>
poolVars == <<wpc, wtask, wresult, wbuf>>
clientVars == <<now, calls, limiter_lock, current_key_index, key_stats,
                cpc, attempt, keys_tried, max_retries, wake, solo, reqlog,
                cret, cerr, requests, ncalls,
                nkeys, api_keys, key_rotation_delay, caption, img_pos, key_rotation_lock, old_index, rret, nrotcalls,
                saved_set, loaded, backoff_args, backoff_ret>>
vars == <<diskVars, procVars, poolVars, clientVars>>

\* ---- helpers over the disk
\* file.lower().endswith(IMAGE_EXTENSIONS)
IsImage(id) == \E i \in 1..Len(IMAGE_EXTENSIONS) : IMAGE_EXTENSIONS[i] = LowerWord(id.ext)
ExtIndex(e) ==
    CHOOSE i \in 1..Len(IMAGE_EXTENSIONS) : IMAGE_EXTENSIONS[i] = LowerWord(e)
BaseIndex(b) == CHOOSE i \in 1..Len(BaseNames) : BaseNames[i] = b
Before(x, y) ==
    \/ BaseIndex(x.base) < BaseIndex(y.base)
    \/ x.base = y.base /\ ExtIndex(x.ext) < ExtIndex(y.ext)

RECURSIVE WalkOrder(_)
\* os.walk over a set of files, as a list
WalkOrder(S) ==
    IF S = {} THEN <<>>
    ELSE LET first == CHOOSE x \in S : \A y \in S \ {x} : Before(x, y)
         IN  <<first>> \o WalkOrder(S \ {first})

\* FileManager.scan_for_error_files: the outputs whose text has an error marker
scan_for_error_files(outs) ==
    {b \in Bases : outs[b] # NoFile /\ fm_has_error_content(outs[b])}

RECURSIVE RemoveFirstExt(_, _, _)
\* the inner loop of mark_error_files_for_retry for one error file: remove the
\* first potential_image found in processed_files, then break
RemoveFirstExt(processed, b, i) ==
    IF i > Len(IMAGE_EXTENSIONS) THEN processed
    ELSE LET potential_image == [base |-> b, ext |-> IMAGE_EXTENSIONS[i]]
         IN  IF potential_image \in processed
             THEN processed \ {potential_image}
             ELSE RemoveFirstExt(processed, b, i + 1)

RECURSIVE RemoveErrorFiles(_, _)
\* the outer loop of mark_error_files_for_retry
RemoveErrorFiles(processed, error_files) ==
    IF error_files = {} THEN processed
    ELSE LET b == CHOOSE x \in error_files : TRUE
         IN  RemoveErrorFiles(RemoveFirstExt(processed, b, 1), error_files \ {b})

\* get_pending_files with endswith applied to the name as it is spelled
get_pending_files_CaseSensitive(files, processed) ==
    WalkOrder({id \in files :
                 /\ \E i \in 1..Len(IMAGE_EXTENSIONS) : IMAGE_EXTENSIONS[i] = id.ext
                 /\ id \notin processed})

\* FileManager.get_pending_files
get_pending_files(files, processed) ==
    WalkOrder({id \in files : IsImage(id) /\ id \notin processed})

RECURSIVE FirstExisting(_, _, _)
\* the extension loop of get_error_file_inputs for one error file
FirstExisting(files, b, i) ==
    IF i > Len(IMAGE_EXTENSIONS) THEN {}
    ELSE LET potential_input == [base |-> b, ext |-> IMAGE_EXTENSIONS[i]]
         IN  IF potential_input \in files THEN {potential_input}
             ELSE FirstExisting(files, b, i + 1)

\* FileManager.get_error_file_inputs
get_error_file_inputs(files, outs) ==
    WalkOrder(UNION {FirstExisting(files, b, 1) : b \in scan_for_error_files(outs)})

(***************************************************************************)
(* The run: main.py and the worker pool.                                   *)
(***************************************************************************)
\* ThreadPoolExecutor threads at rest, and a process not started
PoolIdle ==
    /\ wpc = [w \in Workers |-> "idle"]
    /\ wtask = [w \in Workers |-> NoTask]
    /\ wresult = [w \in Workers |-> <<>>]
    /\ wbuf = [w \in Workers |-> {}]

\* config.DEFAULT_KEY_ROTATION_DELAY, the default of --key-rotation-delay
DEFAULT_KEY_ROTATION_DELAY == 1

\* a list of n credentials, none of them empty
ConfiguredKeys(n) == [i \in 1..n |-> "AIza"]

\* a test that takes an empty string for a credential
NoValidKeys_EmptyListOnly(keys) == keys = <<>>

\* `not keys or not any(keys)' of validate_api_keys and GeminiClient.__init__
NoValidKeys(keys) ==
    \/ keys = <<>>
    \/ ~\E i \in 1..Len(keys) : keys[i] # ""

ProcessClear ==
    /\ shutdown_requested' = FALSE
    /\ proc_shutdown' = FALSE
    /\ processed_files' = {}
    /\ tasks' = <<>>
    /\ nsubmitted' = 0
    /\ queue' = <<>>
    /\ pbar' = 0
    /\ removed' = FALSE
    /\ wpc' = [w \in Workers |-> "idle"]
    /\ wtask' = [w \in Workers |-> NoTask]
    /\ wresult' = [w \in Workers |-> <<>>]
    /\ wbuf' = [w \in Workers |-> {}]

\* main(): a new process; the module-level flag and ImageProcessor's field
\* start False
StartRun(m, re, limit) ==
    /\ mainpc = "idle"
    /\ runs < limit
    /\ ~NoValidKeys(api_keys)
    /\ ProcessClear
    /\ mode' = m
    /\ retry_errors' = re
    /\ runs' = runs + 1
    /\ killed' = FALSE
    /\ mainpc' = IF m = "fix" THEN "fix_scan" ELSE "load"
    /\ UNCHANGED <<diskVars, clientVars>>

\* FileManager.load_checkpoint; pickle.load of a truncated file raises, and
\* main() logs the exception and exits with status 1
load_checkpoint ==
    /\ mainpc = "load"
    /\ IF ckpt.state = "truncated"
       THEN /\ mainpc' = "returned"
            /\ UNCHANGED processed_files
       ELSE /\ processed_files' = ckpt.ids
            /\ mainpc' = IF retry_errors THEN "reconcile" ELSE "count"
    /\ UNCHANGED <<diskVars, mode, retry_errors, shutdown_requested, proc_shutdown,
                   tasks, nsubmitted, queue, pbar, runs, removed, killed,
                   poolVars, clientVars>>

\* FileManager.mark_error_files_for_retry up to the open() of save_checkpoint
mark_error_files_for_retry ==
    /\ mainpc = "reconcile"
    /\ LET error_files == scan_for_error_files(outputs)
       IN  IF error_files # {}
           THEN /\ processed_files' = RemoveErrorFiles(processed_files, error_files)
                /\ ckpt' = CkptTruncated
                /\ mainpc' = "reconcile_dump"
           ELSE /\ mainpc' = "count"
                /\ UNCHANGED <<processed_files, ckpt>>
    /\ UNCHANGED <<inputFiles, outputs, mode, retry_errors, shutdown_requested,
                   proc_shutdown, tasks, nsubmitted, queue, pbar, runs, removed,
                   killed, poolVars, clientVars>>

\* FileManager.save_checkpoint: pickle.dump and the close of the file
save_checkpoint ==
    /\ mainpc = "reconcile_dump"
    /\ ckpt' = CkptOf(processed_files)
    /\ mainpc' = "count"
    /\ UNCHANGED <<inputFiles, outputs, mode, retry_errors, shutdown_requested, proc_shutdown,
                   processed_files, tasks, nsubmitted, queue, pbar, runs, removed, killed, poolVars, clientVars>>

\* FileManager.count_total_files
count_total_files(files) == Cardinality({id \in files : IsImage(id)})

\* process_directory from count_total_files to prepare_image_tasks
count_and_prepare ==
    /\ mainpc = "count"
    /\ LET total_files == count_total_files(inputFiles)
           remaining_files == total_files - Cardinality(processed_files)
       IN  IF remaining_files = 0
           THEN /\ mainpc' = "returned"
                /\ UNCHANGED tasks
           ELSE /\ tasks' = get_pending_files(inputFiles, processed_files)
                /\ mainpc' = "set_flag"
    /\ UNCHANGED <<diskVars, mode, retry_errors, shutdown_requested, proc_shutdown,
                   processed_files, nsubmitted, queue, pbar, runs, removed, killed,
                   poolVars, clientVars>>

\* fix_error_files up to prepare_image_tasks
fix_prepare ==
    /\ mainpc = "fix_scan"
    /\ LET error_file_inputs == get_error_file_inputs(inputFiles, outputs)
       IN  IF error_file_inputs = <<>>
           THEN /\ mainpc' = "returned"
                /\ UNCHANGED tasks
           ELSE /\ tasks' = error_file_inputs
                /\ mainpc' = "set_flag"
    /\ UNCHANGED <<diskVars, mode, retry_errors, shutdown_requested, proc_shutdown,
                   processed_files, nsubmitted, queue, pbar, runs, removed, killed,
                   poolVars, clientVars>>

\* image_processor.set_shutdown_flag(shutdown_requested): the value is copied
set_shutdown_flag ==
    /\ mainpc = "set_flag"
    /\ proc_shutdown' = shutdown_requested
    /\ mainpc' = "submit"
    /\ UNCHANGED <<diskVars, mode, retry_errors, shutdown_requested,
                   processed_files, tasks, nsubmitted, queue, pbar, runs, removed,
                   killed, poolVars, clientVars>>

\* the flag the dispatch loop and process_and_save read
ShutdownSeenByProcessor == proc_shutdown

\* process_images_batch: one round of the submit loop
submit ==
    /\ mainpc = "submit"
    /\ IF ShutdownSeenByProcessor \/ nsubmitted = Len(tasks)
       THEN /\ mainpc' = "wait"
            /\ UNCHANGED <<nsubmitted, queue>>
       ELSE /\ queue' = Append(queue, tasks[nsubmitted + 1])
            /\ nsubmitted' = nsubmitted + 1
            /\ UNCHANGED mainpc
    /\ UNCHANGED <<diskVars, mode, retry_errors, shutdown_requested, proc_shutdown,
                   processed_files, tasks, pbar, runs, removed, killed,
                   poolVars, clientVars>>

\* a batch that returns at the shutdown test of the as_completed loop
wait_for_pool_CancelsOnShutdown ==
    /\ mainpc = "wait"
    /\ proc_shutdown \/ (queue = <<>> /\ \A w \in Workers : wpc[w] = "idle")
    /\ mainpc' = IF mode = "fix" THEN "fix_final" ELSE "final"
    /\ UNCHANGED <<diskVars, mode, retry_errors, shutdown_requested, proc_shutdown,
                   processed_files, tasks, nsubmitted, queue, pbar, runs, removed,
                   killed, poolVars, clientVars>>

\* process_images_batch: the as_completed loop and the executor's exit, which
\* waits for every submitted task
wait_for_pool ==
    /\ mainpc = "wait"
    /\ queue = <<>>
    /\ \A w \in Workers : wpc[w] = "idle"
    /\ mainpc' = IF mode = "fix" THEN "fix_final" ELSE "final"
    /\ UNCHANGED <<diskVars, mode, retry_errors, shutdown_requested, proc_shutdown,
                   processed_files, tasks, nsubmitted, queue, pbar, runs, removed,
                   killed, poolVars, clientVars>>

\* process_directory: the final scan and FileManager.remove_checkpoint
final_scan_and_remove ==
    /\ mainpc = "final"
    /\ IF ~shutdown_requested
       THEN /\ ckpt' = CkptAbsent
            /\ removed' = (ckpt.state # "absent")
       ELSE UNCHANGED <<ckpt, removed>>
    /\ mainpc' = "returned"
    /\ UNCHANGED <<inputFiles, outputs, mode, retry_errors, shutdown_requested,
                   proc_shutdown, processed_files, tasks, nsubmitted, queue, pbar,
                   runs, killed, poolVars, clientVars>>

\* fix_error_files: the final scan only logs
fix_final ==
    /\ mainpc = "fix_final"
    /\ mainpc' = "returned"
    /\ UNCHANGED <<diskVars, mode, retry_errors, shutdown_requested, proc_shutdown,
                   processed_files, tasks, nsubmitted, queue, pbar, runs, removed,
                   killed, poolVars, clientVars>>

\* main() returns and the process exits
exit_process ==
    /\ mainpc = "returned"
    /\ ProcessClear
    /\ mainpc' = "idle"
    /\ UNCHANGED <<diskVars, mode, retry_errors, runs, killed, clientVars>>

\* main.signal_handler: SIGINT or SIGTERM while the process runs
signal_handler ==
    /\ mainpc \notin {"idle", "returned"}
    /\ ~shutdown_requested
    /\ shutdown_requested' = TRUE
    /\ UNCHANGED <<diskVars, mainpc, mode, retry_errors, proc_shutdown,
                   processed_files, tasks, nsubmitted, queue, pbar, runs, removed,
                   killed, poolVars, clientVars>>

\* SIGKILL or power loss: the process and its memory are gone, the disk stays
Kill ==
    /\ mainpc \notin {"idle", "returned"}
    /\ ProcessClear
    /\ mainpc' = "idle"
    /\ killed' = TRUE
    /\ UNCHANGED <<diskVars, mode, retry_errors, runs, clientVars>>

(***************************************************************************)
(* ImageProcessor.process_and_save, run by a thread of the pool.           *)
(***************************************************************************)
mainFrame == <<mainpc, mode, retry_errors, shutdown_requested, proc_shutdown,
               tasks, nsubmitted, runs, removed, killed>>

\* a worker that takes the head of the queue and leaves it queued
take_task_LeavesQueued(w) ==
    /\ wpc[w] = "idle"
    /\ queue # <<>>
    /\ wtask' = [wtask EXCEPT ![w] = Head(queue)]
    /\ wpc' = [wpc EXCEPT ![w] = "top"]
    /\ wresult' = [wresult EXCEPT ![w] = <<>>]
    /\ UNCHANGED <<diskVars, mainFrame, processed_files, queue, pbar, wbuf,
                   clientVars>>

\* a pool thread takes the oldest submitted task
take_task(w) ==
    /\ wpc[w] = "idle"
    /\ queue # <<>>
    /\ wtask' = [wtask EXCEPT ![w] = Head(queue)]
    /\ queue' = Tail(queue)
    /\ wpc' = [wpc EXCEPT ![w] = "top"]
    /\ wresult' = [wresult EXCEPT ![w] = <<>>]
    /\ UNCHANGED <<diskVars, mainFrame, processed_files, pbar, wbuf, clientVars>>

\* a skip that forgets the progress bar
check_shutdown_NoProgress(w) ==
    /\ wpc[w] = "top"
    /\ IF ShutdownSeenByProcessor
       THEN /\ wpc' = [wpc EXCEPT ![w] = "idle"]
            /\ wtask' = [wtask EXCEPT ![w] = NoTask]
       ELSE /\ wpc' = [wpc EXCEPT ![w] = "call"]
            /\ UNCHANGED wtask
    /\ UNCHANGED <<diskVars, mainFrame, processed_files, queue, pbar, wresult,
                   wbuf, clientVars>>

\* a process_and_save without the shutdown test
check_shutdown_IgnoresFlag(w) ==
    /\ wpc[w] = "top"
    /\ wpc' = [wpc EXCEPT ![w] = "call"]
    /\ UNCHANGED <<diskVars, mainFrame, processed_files, queue, pbar, wtask,
                   wresult, wbuf, clientVars>>

\* the shutdown test at the top of process_and_save
check_shutdown(w) ==
    /\ wpc[w] = "top"
    /\ IF ShutdownSeenByProcessor
       THEN /\ pbar' = pbar + 1
            /\ wpc' = [wpc EXCEPT ![w] = "idle"]
            /\ wtask' = [wtask EXCEPT ![w] = NoTask]
       ELSE /\ wpc' = [wpc EXCEPT ![w] = "call"]
            /\ UNCHANGED <<pbar, wtask>>
    /\ UNCHANGED <<diskVars, mainFrame, processed_files, queue, wresult,
                   wbuf, clientVars>>

\* self.process_image(input_path, max_retries): the Service Client returns a
\* caption or a failure marker
process_image(w, every) ==
    /\ wpc[w] = "call"
    /\ \E r \in (IF every THEN ClientReturns(PathText(wtask[w]))
                          ELSE SampleReturns(PathText(wtask[w]))) :
           wresult' = [wresult EXCEPT ![w] = r]
    /\ wpc' = [wpc EXCEPT ![w] = "write"]
    /\ UNCHANGED <<diskVars, mainFrame, processed_files, queue, pbar, wtask,
                   wbuf, clientVars>>

\* a classifier that knows only the phrases the service itself words
ResultHasErrors_ServicePhrasesOnly(result) ==
    \E i \in {1, 3, 4, 5, 6, 11, 12} :
        Contains(Lower(result), Lower(ERROR_MESSAGES[i]))

\* the classifier's verdict on a fresh result
ResultHasErrors(result) == has_error_content(result)

\* open(output_path, 'w'), f.write(result), and the has_errors test; the
\* task's processed_files is None in fix mode
write_output(w) ==
    /\ wpc[w] = "write"
    /\ outputs' = [outputs EXCEPT ![wtask[w].base] = wresult[w]]
    /\ wpc' = [wpc EXCEPT ![w] =
                  IF ~ResultHasErrors(wresult[w]) /\ mode # "fix"
                  THEN "lock" ELSE "finally"]
    /\ UNCHANGED <<inputFiles, ckpt, mainFrame, processed_files, queue, pbar,
                   wtask, wresult, wbuf, clientVars>>

\* self.process_image raises: control passes to process_and_save's except
process_image_raises(w) ==
    /\ wpc[w] = "call"
    /\ wpc' = [wpc EXCEPT ![w] = "except"]
    /\ UNCHANGED <<diskVars, mainFrame, processed_files, queue, pbar, wtask,
                   wresult, wbuf, clientVars>>

\* open(output_path, 'w') raises: control passes to process_and_save's except
write_output_raises(w) ==
    /\ wpc[w] = "write"
    /\ wpc' = [wpc EXCEPT ![w] = "except"]
    /\ UNCHANGED <<diskVars, mainFrame, processed_files, queue, pbar, wtask,
                   wresult, wbuf, clientVars>>

\* the pcs of the add-identifier-and-write-checkpoint section
SaveSection == {"add", "open", "dump", "close"}

\* `with threading.Lock():' makes a new lock object for this entry, which
\* nobody else holds
LockIsFree(w) == TRUE

\* entering the with block
acquire_lock(w) ==
    /\ wpc[w] = "lock"
    /\ LockIsFree(w)
    /\ wpc' = [wpc EXCEPT ![w] = "add"]
    /\ UNCHANGED <<diskVars, mainFrame, processed_files, queue, pbar, wtask,
                   wresult, wbuf, clientVars>>

\* an add that replaces the set by the new identifier
add_processed_Replaces(w) ==
    /\ wpc[w] = "add"
    /\ processed_files' = {wtask[w]}
    /\ wpc' = [wpc EXCEPT ![w] = "open"]
    /\ UNCHANGED <<diskVars, mainFrame, queue, pbar, wtask, wresult, wbuf,
                   clientVars>>

\* processed_files.add(relative_path)
add_processed(w) ==
    /\ wpc[w] = "add"
    /\ processed_files' = processed_files \cup {wtask[w]}
    /\ wpc' = [wpc EXCEPT ![w] = "open"]
    /\ UNCHANGED <<diskVars, mainFrame, queue, pbar, wtask, wresult, wbuf,
                   clientVars>>

\* open(checkpoint_file, 'wb') truncates the file
open_checkpoint(w) ==
    /\ wpc[w] = "open"
    /\ ckpt' = CkptTruncated
    /\ wpc' = [wpc EXCEPT ![w] = "dump"]
    /\ UNCHANGED <<inputFiles, outputs, mainFrame, processed_files, queue, pbar,
                   wtask, wresult, wbuf, clientVars>>

\* open(checkpoint_file, 'wb') raises: the file is left as it was
open_checkpoint_raises(w) ==
    /\ wpc[w] = "open"
    /\ wpc' = [wpc EXCEPT ![w] = "except"]
    /\ UNCHANGED <<diskVars, mainFrame, processed_files, queue, pbar, wtask,
                   wresult, wbuf, clientVars>>

\* pickle.dump raises: the with block closes the file, which stays truncated
dump_checkpoint_raises(w) ==
    /\ wpc[w] = "dump"
    /\ wpc' = [wpc EXCEPT ![w] = "except"]
    /\ UNCHANGED <<diskVars, mainFrame, processed_files, queue, pbar, wtask,
                   wresult, wbuf, clientVars>>

\* pickle.dump(processed_files, f) pickles the shared set as it is now into
\* the file object's buffer
dump_checkpoint(w) ==
    /\ wpc[w] = "dump"
    /\ wbuf' = [wbuf EXCEPT ![w] = processed_files]
    /\ wpc' = [wpc EXCEPT ![w] = "close"]
    /\ UNCHANGED <<diskVars, mainFrame, processed_files, queue, pbar, wtask,
                   wresult, clientVars>>

\* leaving `with open(...)': the buffer is written at offset 0 and the file
\* closed; the with-lock block ends
close_checkpoint(w) ==
    /\ wpc[w] = "close"
    /\ ckpt' = CkptOf(wbuf[w])
    /\ wbuf' = [wbuf EXCEPT ![w] = {}]
    /\ wpc' = [wpc EXCEPT ![w] = "finally"]
    /\ UNCHANGED <<inputFiles, outputs, mainFrame, processed_files, queue, pbar,
                   wtask, wresult, clientVars>>

\* a handler that records the item as processed
except_log_MarksDone(w) ==
    /\ wpc[w] = "except"
    /\ processed_files' = processed_files \cup {wtask[w]}
    /\ wpc' = [wpc EXCEPT ![w] = "finally"]
    /\ UNCHANGED <<diskVars, mainFrame, queue, pbar, wtask, wresult, wbuf,
                   clientVars>>

\* except Exception as e: logging.error(...)
except_log(w) ==
    /\ wpc[w] = "except"
    /\ wpc' = [wpc EXCEPT ![w] = "finally"]
    /\ UNCHANGED <<diskVars, mainFrame, processed_files, queue, pbar, wtask,
                   wresult, wbuf, clientVars>>

\* finally: pbar.update(1); the task is done
finally_update(w) ==
    /\ wpc[w] = "finally"
    /\ pbar' = pbar + 1
    /\ wpc' = [wpc EXCEPT ![w] = "idle"]
    /\ wtask' = [wtask EXCEPT ![w] = NoTask]
    /\ wresult' = [wresult EXCEPT ![w] = <<>>]
    /\ UNCHANGED <<diskVars, mainFrame, processed_files, queue, wbuf, clientVars>>

(***************************************************************************)
(* RateLimiter and GeminiClient.  The clock counts whole seconds;          *)
(* time.sleep(x) returns once the clock has advanced by at least x.        *)
(***************************************************************************)
Callers == 1..NCallers
Keys == 0..(NKeys - 1)

\* the image path of the calls of SpecClient
ClientPath == <<"images", "/", "a", ".", "png">>

\* time.sleep(2) at the top of process_image_with_gemini
INITIAL_SLEEP == 2
\* key_rotation_delay's default, the value every call of process_image gets
KEY_ROTATION_DELAY == 1

Min(a, b) == IF a < b THEN a ELSE b
Max(a, b) == IF a > b THEN a ELSE b
RECURSIVE Pow2(_)
Pow2(n) == IF n = 0 THEN 1 ELSE 2 * Pow2(n - 1)

\* draws from an interval twice as wide
JitterDraws_Wide(jitter_range) == {0 - 2 * jitter_range, 2 * jitter_range}

\* the draws of random.uniform(-jitter_range, jitter_range) the model takes:
\* both ends and the middle
JitterDraws(jitter_range) == {0 - jitter_range, 0, jitter_range}

\* jitter_range = delay * 0.25; the delays of the model are multiples of 4
\* hundredths, for which the product is exact
JitterRange(delay) == (delay * 25) \div 100

\* a backoff that forgets max_delay
exponential_backoff_with_jitter_NoCap(att, base_delay, max_delay, jitter, u) ==
    Max(IF jitter THEN base_delay * Pow2(att) + u ELSE base_delay * Pow2(att), 10)

\* GeminiClient.exponential_backoff_with_jitter, all times in hundredths of a
\* second; u is the draw of random.uniform
exponential_backoff_with_jitter(att, base_delay, max_delay, jitter, u) ==
    LET delay == Min(base_delay * Pow2(att), max_delay)
    IN  Max(IF jitter THEN delay + u ELSE delay, 10)

\* the delays exponential_backoff_with_jitter(attempt) can return with the
\* defaults base_delay = 1 and max_delay = 60
BackoffDelays(att) ==
    LET jitter_range == JitterRange(Min(100 * Pow2(att), 6000))
    IN  {exponential_backoff_with_jitter(att, 100, 6000, TRUE, u) :
            u \in JitterDraws(jitter_range)}

\* a malformed response taken for a caption
MalformedMarker_Caption(kind, path) == CaptionClean

\* the outcomes of one generate_content call
Malformed == {"no_candidates", "no_parts", "safety", "max_tokens", "unexpected"}
MalformedMarker(kind, path) ==
    CASE kind = "no_candidates" -> MarkNoCandidates(path)
      [] kind = "no_parts" -> MarkNoContentParts(path)
      [] kind = "safety" -> MarkSafety(path)
      [] kind = "max_tokens" -> MarkMaxTokens(path)
      [] OTHER -> MarkUnexpectedFinish(path)

\* how the except block takes an exception's message
ErrorClass(e) ==
    IF is_rate_limit_error(e) THEN "rate"
    ELSE IF is_retryable(e) THEN "server" ELSE "terminal"

\* no index returned
NoIndex == 0 - 1

ZeroStats == [requests |-> 0, errors |-> 0, rate_limits |-> 0]

\* no return value yet
NotLoaded == [done |-> FALSE, ids |-> {}]
NoDelay == 0 - 1
NoArgs == [attempt |-> 0, base_delay |-> 0, max_delay |-> 0, jitter |-> FALSE]

\* nobody calls FileManager or the backoff function directly
DirectInit ==
    /\ saved_set = {}
    /\ loaded = NotLoaded
    /\ backoff_args = NoArgs
    /\ backoff_ret = NoDelay

\* no image of a worker file is being processed
NoCaption == <<"none">>
S3Init ==
    /\ caption = NoCaption
    /\ img_pos = 0

ClientInit ==
    /\ now = 0
    /\ calls = <<>>
    /\ limiter_lock = 0
    /\ current_key_index = 0
    /\ key_rotation_lock = 0
    /\ old_index = [t \in Callers |-> 0]
    /\ rret = [t \in Callers |-> NoIndex]
    /\ nrotcalls = 0
    /\ key_stats = [k \in 0..(nkeys - 1) |-> ZeroStats]
    /\ cpc = [t \in Callers |-> "idle"]
    /\ attempt = [t \in Callers |-> 0]
    /\ keys_tried = [t \in Callers |-> {}]
    /\ max_retries = [t \in Callers |-> 0]
    /\ wake = [t \in Callers |-> 0]
    /\ solo = [t \in Callers |-> FALSE]
    /\ reqlog = [t \in Callers |-> <<>>]
    /\ cret = [t \in Callers |-> <<>>]
    /\ cerr = [t \in Callers |-> <<>>]
    /\ requests = <<>>
    /\ ncalls = 0

runVars == <<diskVars, procVars, poolVars>>
\* the state of GeminiClient and RateLimiter
gemVars == <<now, calls, limiter_lock, current_key_index, key_stats,
             cpc, attempt, keys_tried, max_retries, wake, solo, reqlog,
             cret, cerr, requests, ncalls,
             nkeys, api_keys, key_rotation_delay, caption, img_pos, key_rotation_lock, old_index, rret, nrotcalls>>
\* the state of rotate_api_key and its lock
rotVars == <<nkeys, api_keys, key_rotation_delay, caption, img_pos, key_rotation_lock, old_index, rret, nrotcalls, directVars>>

\* a thread calls process_image_with_gemini(image_path, mr)
start_call(t, mr) ==
    /\ cpc[t] = "idle"
    /\ ncalls < MaxCallsTotal
    /\ ncalls' = ncalls + 1
    /\ max_retries' = [max_retries EXCEPT ![t] = mr]
    /\ cpc' = [cpc EXCEPT ![t] = "limiter"]
    /\ solo' = [u \in Callers |-> IF u = t THEN \A v \in Callers : cpc[v] = "idle"
                                  ELSE FALSE]
    /\ UNCHANGED <<now, calls, limiter_lock, current_key_index, key_stats, wake,
                   attempt, keys_tried, reqlog, cret, cerr, requests, runVars, rotVars>>

\* the list comprehension of RateLimiter.wrapper
Prune(cs, t_now, period) == SelectSeq(cs, LAMBDA c : c > t_now - period)

\* the window test with > for >=
WindowFull_OffByOne(cs, max_calls) == Len(cs) > max_calls

\* the test that sends wrapper to sleep
WindowFull(cs, max_calls) == Len(cs) >= max_calls

\* RateLimiter.wrapper: take the lock, read the clock, prune, test
limiter_enter(t) ==
    /\ cpc[t] = "limiter"
    /\ limiter_lock = 0
    /\ limiter_lock' = t
    /\ LET pruned == Prune(calls, now, RatePeriod)
       IN  /\ calls' = pruned
           /\ IF WindowFull(pruned, RateMaxCalls)
              THEN /\ wake' = [wake EXCEPT ![t] = now + (pruned[1] - (now - RatePeriod))]
                   /\ cpc' = [cpc EXCEPT ![t] = "limiter_sleep"]
              ELSE /\ cpc' = [cpc EXCEPT ![t] = "limiter_append"]
                   /\ UNCHANGED wake
    /\ UNCHANGED <<now, current_key_index, key_stats, attempt, keys_tried,
                   max_retries, solo, reqlog, cret, cerr, requests, ncalls, runVars, rotVars>>

\* time.sleep(sleep_time) returns, the lock still held
limiter_wake(t) ==
    /\ cpc[t] = "limiter_sleep"
    /\ now >= wake[t]
    /\ cpc' = [cpc EXCEPT ![t] = "limiter_append"]
    /\ UNCHANGED <<now, calls, limiter_lock, current_key_index, key_stats, attempt,
                   keys_tried, max_retries, wake, solo, reqlog, cret, cerr,
                   requests, ncalls, runVars, rotVars>>

\* self.calls.append(time.time()), the lock is released, and the wrapped
\* function starts with time.sleep(2)
limiter_append(t) ==
    /\ cpc[t] = "limiter_append"
    /\ calls' = Append(calls, now)
    /\ limiter_lock' = 0
    /\ wake' = [wake EXCEPT ![t] = now + INITIAL_SLEEP]
    /\ cpc' = [cpc EXCEPT ![t] = "initial_sleep"]
    /\ UNCHANGED <<now, current_key_index, key_stats, attempt, keys_tried,
                   max_retries, solo, reqlog, cret, cerr, requests, ncalls, runVars, rotVars>>

\* what `for attempt in range(max_retries + 1)' does with the next value:
\* the body, or the return after the loop
ForLoop(t, att) ==
    IF att <= max_retries[t]
    THEN /\ attempt' = [attempt EXCEPT ![t] = att]
         /\ cpc' = [cpc EXCEPT ![t] = "count_request"]
         /\ UNCHANGED cret
    ELSE /\ cret' = [cret EXCEPT ![t] = MarkRetryLoop(ClientPath)]
         /\ cpc' = [cpc EXCEPT ![t] = "returned"]
         /\ UNCHANGED attempt

\* a loop that skips a value of range(max_retries + 1) at every `continue'
NextAttempt_SkipsOne(t) == attempt[t] + 2

\* a loop whose `continue' repeats the same value
NextAttempt_Repeats(t) == attempt[t]

\* the attempt the loop takes after a `continue'
NextAttempt(t) == attempt[t] + 1

\* time.sleep(2) returns; keys_tried = set(); the loop starts
begin_loop(t) ==
    /\ cpc[t] = "initial_sleep"
    /\ now >= wake[t]
    /\ keys_tried' = [keys_tried EXCEPT ![t] = {}]
    /\ ForLoop(t, 0)
    /\ UNCHANGED <<now, calls, limiter_lock, current_key_index, key_stats,
                   max_retries, wake, solo, reqlog, cerr, requests, ncalls, runVars, rotVars>>

\* a thread that is not in a `with self.key_rotation_lock:' block holds nothing
KeyLockFree_Always == TRUE

\* `with self.key_rotation_lock:' can be entered: the lock of the GeminiClient
\* instance is held by no thread
KeyLockFree == key_rotation_lock = 0

\* with key_rotation_lock: key_stats[current_key_index]['requests'] += 1
count_request(t) ==
    /\ cpc[t] = "count_request"
    /\ KeyLockFree
    /\ key_stats' = [key_stats EXCEPT ![current_key_index].requests = @ + 1]
    /\ cpc' = [cpc EXCEPT ![t] = "send"]
    /\ UNCHANGED <<now, calls, limiter_lock, current_key_index, attempt, keys_tried,
                   max_retries, wake, solo, reqlog, cret, cerr, requests, ncalls,
                   runVars, rotVars>>

\* self.client.models.generate_content(...): the request leaves with the
\* credential self.client holds now
send_request(t) ==
    /\ cpc[t] = "send"
    /\ reqlog' = [reqlog EXCEPT ![t] =
                     Append(@, [key |-> current_key_index, out |-> "pending"])]
    /\ requests' = Append(requests, now)
    /\ cpc' = [cpc EXCEPT ![t] = "await"]
    /\ UNCHANGED <<now, calls, limiter_lock, current_key_index, key_stats, attempt,
                   keys_tried, max_retries, wake, solo, cret, cerr, ncalls, runVars, rotVars>>

SetOutcome(log, out) == [log EXCEPT ![Len(log)].out = out]

\* a response with finish_reason STOP and content parts: the caption is returned
receive_caption(t) ==
    /\ cpc[t] = "await"
    /\ reqlog' = [reqlog EXCEPT ![t] = SetOutcome(@, "ok")]
    /\ cret' = [cret EXCEPT ![t] = CaptionClean]
    /\ cpc' = [cpc EXCEPT ![t] = "returned"]
    /\ UNCHANGED <<now, calls, limiter_lock, current_key_index, key_stats, attempt,
                   keys_tried, max_retries, wake, solo, cerr, requests, ncalls,
                   runVars, rotVars>>

\* a response without candidates or parts, or with another finish reason
receive_malformed(t, kind) ==
    /\ cpc[t] = "await"
    /\ KeyLockFree
    /\ reqlog' = [reqlog EXCEPT ![t] = SetOutcome(@, "malformed")]
    /\ key_stats' = [key_stats EXCEPT ![current_key_index].errors = @ + 1]
    /\ cret' = [cret EXCEPT ![t] = MalformedMarker(kind, ClientPath)]
    /\ cpc' = [cpc EXCEPT ![t] = "returned"]
    /\ UNCHANGED <<now, calls, limiter_lock, current_key_index, attempt,
                   keys_tried, max_retries, wake, solo, cerr, requests, ncalls,
                   runVars, rotVars>>

\* generate_content raises: error_str = str(e), and the errors counter of
\* the current key is incremented
receive_exception(t, e) ==
    /\ cpc[t] = "await"
    /\ KeyLockFree
    /\ reqlog' = [reqlog EXCEPT ![t] = SetOutcome(@, ErrorClass(e))]
    /\ cerr' = [cerr EXCEPT ![t] = e]
    /\ key_stats' = [key_stats EXCEPT ![current_key_index].errors = @ + 1]
    /\ cpc' = [cpc EXCEPT ![t] = IF is_rate_limit_error(e) THEN "rate_count"
                                 ELSE "retry_test"]
    /\ UNCHANGED <<now, calls, limiter_lock, current_key_index, attempt,
                   keys_tried, max_retries, wake, solo, cret, requests, ncalls,
                   runVars, rotVars>>

\* with key_rotation_lock: key_stats[current_key_index]['rate_limits'] += 1
count_rate_limit(t) ==
    /\ cpc[t] = "rate_count"
    /\ KeyLockFree
    /\ key_stats' = [key_stats EXCEPT ![current_key_index].rate_limits = @ + 1]
    /\ cpc' = [cpc EXCEPT ![t] = "rate_tried"]
    /\ UNCHANGED <<now, calls, limiter_lock, current_key_index, attempt, keys_tried,
                   max_retries, wake, solo, reqlog, cret, cerr, requests, ncalls,
                   runVars, rotVars>>

\* keys_tried.add(self.current_key_index) and the test on len(keys_tried)
mark_key_tried(t) ==
    /\ cpc[t] = "rate_tried"
    /\ LET tried == keys_tried[t] \cup {current_key_index}
       IN  /\ keys_tried' = [keys_tried EXCEPT ![t] = tried]
           /\ IF Cardinality(tried) < nkeys
              THEN /\ cpc' = [cpc EXCEPT ![t] = "rotate"]
                   /\ UNCHANGED cret
              ELSE /\ cret' = [cret EXCEPT ![t] =
                                  MarkAllKeysRateLimited(ClientPath, cerr[t])]
                   /\ cpc' = [cpc EXCEPT ![t] = "returned"]
    /\ UNCHANGED <<now, calls, limiter_lock, current_key_index, key_stats, attempt,
                   max_retries, wake, solo, reqlog, cerr, requests, ncalls, runVars, rotVars>>

\* the index without the wrap to 0
NextKeyIndex_NoWrap(i, n) == i + 1

\* (self.current_key_index + 1) % len(self.api_keys)
NextKeyIndex(i, n) == (i + 1) % n

\* a thread calls client.rotate_api_key() itself, as the tests do
call_rotate(t) ==
    /\ cpc[t] = "idle"
    /\ nrotcalls < MaxRotations
    /\ nrotcalls' = nrotcalls + 1
    /\ cpc' = [cpc EXCEPT ![t] = "t_rotate"]
    /\ UNCHANGED <<now, calls, limiter_lock, current_key_index, key_stats, attempt,
                   keys_tried, max_retries, wake, solo, reqlog, cret, cerr,
                   requests, ncalls, nkeys, api_keys, key_rotation_delay, caption, img_pos, directVars, key_rotation_lock, old_index, rret,
                   runVars>>

\* the positions of a thread inside rotate_api_key's with block
InRotation == {"rotate_store", "t_rotate_store"}

\* rotate_api_key: the lock is taken; old_index and the operand of the
\* assignment's right-hand side are read from self.current_key_index
rotate_enter(t) ==
    /\ cpc[t] \in {"rotate", "t_rotate"}
    /\ KeyLockFree
    /\ key_rotation_lock' = t
    /\ old_index' = [old_index EXCEPT ![t] = current_key_index]
    /\ cpc' = [cpc EXCEPT ![t] = IF cpc[t] = "rotate" THEN "rotate_store"
                                 ELSE "t_rotate_store"]
    /\ UNCHANGED <<now, calls, limiter_lock, current_key_index, key_stats, attempt,
                   keys_tried, max_retries, wake, solo, reqlog, cret, cerr,
                   requests, ncalls, nkeys, api_keys, key_rotation_delay, caption, img_pos, directVars, rret, nrotcalls, runVars>>

\* rotate_api_key: the new index is stored, self.client replaced, the index
\* returned and the lock released.  process_image_with_gemini drops the
\* returned value and starts time.sleep(key_rotation_delay)
rotate_api_key(t) ==
    /\ cpc[t] \in InRotation
    /\ LET new_index == NextKeyIndex(old_index[t], nkeys)
       IN  /\ current_key_index' = new_index
           /\ IF cpc[t] = "rotate_store"
              THEN /\ wake' = [wake EXCEPT ![t] = now + KEY_ROTATION_DELAY]
                   /\ cpc' = [cpc EXCEPT ![t] = "rotation_sleep"]
                   /\ UNCHANGED rret
              ELSE /\ rret' = [rret EXCEPT ![t] = new_index]
                   /\ cpc' = [cpc EXCEPT ![t] = "t_rotated"]
                   /\ UNCHANGED wake
    /\ key_rotation_lock' = 0
    /\ old_index' = [old_index EXCEPT ![t] = 0]
    /\ UNCHANGED <<now, calls, limiter_lock, key_stats, attempt, keys_tried,
                   max_retries, solo, reqlog, cret, cerr, requests, ncalls,
                   nkeys, api_keys, key_rotation_delay, caption, img_pos, directVars, nrotcalls, runVars>>

\* the direct caller takes the returned index
take_rotated(t) ==
    /\ cpc[t] = "t_rotated"
    /\ cpc' = [cpc EXCEPT ![t] = "idle"]
    /\ rret' = [rret EXCEPT ![t] = NoIndex]
    /\ UNCHANGED <<now, calls, limiter_lock, current_key_index, key_stats, attempt,
                   keys_tried, max_retries, wake, solo, reqlog, cret, cerr,
                   requests, ncalls, nkeys, api_keys, key_rotation_delay, caption, img_pos, directVars, key_rotation_lock, old_index,
                   nrotcalls, runVars>>

\* time.sleep(key_rotation_delay) returns; continue
rotation_continue(t) ==
    /\ cpc[t] = "rotation_sleep"
    /\ now >= wake[t]
    /\ ForLoop(t, NextAttempt(t))
    /\ UNCHANGED <<now, calls, limiter_lock, current_key_index, key_stats,
                   keys_tried, max_retries, wake, solo, reqlog, cerr, requests,
                   ncalls, runVars, rotVars>>

\* the is_retryable test: back off and retry, or return the failure marker
retry_or_give_up(t) ==
    /\ cpc[t] = "retry_test"
    /\ IF is_retryable(cerr[t]) /\ attempt[t] < max_retries[t]
       THEN /\ \E delay \in BackoffDelays(attempt[t]) :
                   wake' = [wake EXCEPT ![t] = now + (delay \div 100)]
            /\ cpc' = [cpc EXCEPT ![t] = "backoff_sleep"]
            /\ UNCHANGED cret
       ELSE /\ cret' = [cret EXCEPT ![t] = MarkErrorProcessing(ClientPath, cerr[t])]
            /\ cpc' = [cpc EXCEPT ![t] = "returned"]
            /\ UNCHANGED wake
    /\ UNCHANGED <<now, calls, limiter_lock, current_key_index, key_stats, attempt,
                   keys_tried, max_retries, solo, reqlog, cerr, requests, ncalls,
                   runVars, rotVars>>

\* time.sleep(delay) returns; continue
backoff_continue(t) ==
    /\ cpc[t] = "backoff_sleep"
    /\ now >= wake[t]
    /\ ForLoop(t, NextAttempt(t))
    /\ UNCHANGED <<now, calls, limiter_lock, current_key_index, key_stats,
                   keys_tried, max_retries, wake, solo, reqlog, cerr, requests,
                   ncalls, runVars, rotVars>>

\* the caller takes the returned value
finish_call(t) ==
    /\ cpc[t] = "returned"
    /\ cpc' = [cpc EXCEPT ![t] = "idle"]
    /\ attempt' = [attempt EXCEPT ![t] = 0]
    /\ keys_tried' = [keys_tried EXCEPT ![t] = {}]
    /\ max_retries' = [max_retries EXCEPT ![t] = 0]
    /\ wake' = [wake EXCEPT ![t] = 0]
    /\ solo' = [solo EXCEPT ![t] = FALSE]
    /\ reqlog' = [reqlog EXCEPT ![t] = <<>>]
    /\ cret' = [cret EXCEPT ![t] = <<>>]
    /\ cerr' = [cerr EXCEPT ![t] = <<>>]
    /\ UNCHANGED <<now, calls, limiter_lock, current_key_index, key_stats,
                   requests, ncalls, runVars, rotVars>>

\* a second passes
Tick ==
    /\ now < MaxTime
    /\ now' = now + 1
    /\ UNCHANGED <<calls, limiter_lock, current_key_index, key_stats, cpc, attempt,
                   keys_tried, max_retries, wake, solo, reqlog, cret, cerr,
                   requests, ncalls, runVars, rotVars>>

(***************************************************************************)
(* The specifications.                                                     *)
(***************************************************************************)
\* a disk before the first run and a process not started
RunInit ==
    /\ outputs = [b \in Bases |-> NoFile]
    /\ ckpt = CkptAbsent
    /\ mainpc = "idle"
    /\ mode = "none"
    /\ retry_errors = FALSE
    /\ shutdown_requested = FALSE
    /\ proc_shutdown = FALSE
    /\ processed_files = {}
    /\ tasks = <<>>
    /\ nsubmitted = 0
    /\ queue = <<>>
    /\ pbar = 0
    /\ runs = 0
    /\ removed = FALSE
    /\ killed = FALSE
    /\ PoolIdle

Init ==
    /\ inputFiles \in InputDirs
    /\ nkeys = NKeys
    /\ api_keys = ConfiguredKeys(nkeys)
    /\ key_rotation_delay = DEFAULT_KEY_ROTATION_DELAY
    /\ S3Init
    /\ RunInit
    /\ ClientInit
    /\ DirectInit

\* the steps of the main thread after the start, and the signals
MainStep ==
    \/ load_checkpoint
    \/ mark_error_files_for_retry
    \/ save_checkpoint
    \/ count_and_prepare
    \/ fix_prepare
    \/ set_shutdown_flag
    \/ submit
    \/ wait_for_pool
    \/ final_scan_and_remove
    \/ fix_final
    \/ exit_process
    \/ signal_handler

\* the steps of a pool thread but the service call
PoolStep(w) ==
        \/ take_task(w)
        \/ check_shutdown(w)
        \/ write_output(w)
        \/ write_output_raises(w)
        \/ acquire_lock(w)
        \/ add_processed(w)
        \/ open_checkpoint(w)
        \/ dump_checkpoint(w)
        \/ close_checkpoint(w)
        \/ except_log(w)
        \/ finally_update(w)

\* runs of process_directory and fix_error_files over one disk, with kills
Next ==
    \/ \E m \in {"process", "fix"}, re \in BOOLEAN : StartRun(m, re, MaxRuns)
    \/ MainStep
    \/ Kill
    \/ \E w \in Workers : PoolStep(w) \/ process_image(w, FALSE)

Spec == Init /\ [][Next]_vars

\* one run of process_directory on a fresh disk, the service returning any
\* caption or failure marker
NextBatch ==
    \/ \E re \in BOOLEAN : StartRun("process", re, 1)
    \/ load_checkpoint
    \/ mark_error_files_for_retry
    \/ count_and_prepare
    \/ set_shutdown_flag
    \/ submit
    \/ wait_for_pool
    \/ final_scan_and_remove
    \/ exit_process
    \/ signal_handler
    \/ \E w \in Workers : PoolStep(w) \/ process_image(w, TRUE)

SpecBatch == Init /\ [][NextBatch]_vars

\* between two runs the user adds images to INPUT_DIR or deletes some
change_input_dir ==
    /\ mainpc = "idle"
    /\ runs >= 1
    /\ inputFiles' \in InputDirs \ {inputFiles}
    /\ UNCHANGED <<outputs, ckpt, procVars, poolVars, clientVars>>

\* the service call of a pool thread succeeds with an error-free caption
process_image_succeeds(w) ==
    /\ process_image(w, FALSE)
    /\ wresult'[w] = CaptionClean

\* runs of process_directory that can be interrupted by a signal and resumed,
\* every service call succeeding and every output written
NextResume ==
    \/ \E re \in BOOLEAN : StartRun("process", re, MaxRuns)
    \/ change_input_dir
    \/ load_checkpoint
    \/ mark_error_files_for_retry
    \/ count_and_prepare
    \/ set_shutdown_flag
    \/ submit
    \/ wait_for_pool
    \/ final_scan_and_remove
    \/ exit_process
    \/ signal_handler
    \/ \E w \in Workers :
          \/ take_task(w)
          \/ check_shutdown(w)
          \/ process_image_succeeds(w)
          \/ write_output(w)
          \/ acquire_lock(w)
          \/ add_processed(w)
          \/ open_checkpoint(w)
          \/ dump_checkpoint(w)
          \/ close_checkpoint(w)
          \/ finally_update(w)

SpecResume == Init /\ [][NextResume]_vars

InitClient ==
    /\ inputFiles = {[base |-> "a", ext |-> "png"]}
    /\ nkeys = NKeys
    /\ api_keys = ConfiguredKeys(nkeys)
    /\ key_rotation_delay = DEFAULT_KEY_ROTATION_DELAY
    /\ S3Init
    /\ RunInit
    /\ ClientInit
    /\ DirectInit

NextClient ==
    \/ Tick
    \/ \E t \in Callers :
        \/ \E mr \in 0..MaxRetries : start_call(t, mr)
        \/ limiter_enter(t)
        \/ limiter_wake(t)
        \/ limiter_append(t)
        \/ begin_loop(t)
        \/ count_request(t)
        \/ send_request(t)
        \/ receive_caption(t)
        \/ \E kind \in Malformed : receive_malformed(t, kind)
        \/ \E e \in ErrorStrings : receive_exception(t, e)
        \/ count_rate_limit(t)
        \/ mark_key_tried(t)
        \/ rotate_enter(t)
        \/ rotate_api_key(t)
        \/ rotation_continue(t)
        \/ retry_or_give_up(t)
        \/ backoff_continue(t)
        \/ finish_call(t)

SpecClient == InitClient /\ [][NextClient]_vars

\* the values of --key-rotation-delay the model takes, in seconds
ConfiguredDelays == {0, 1, 2}

\* main() passes args.key_rotation_delay to process_directory, whose pool
\* thread then calls process_image_with_gemini
InitConfigured ==
    /\ inputFiles = {[base |-> "a", ext |-> "png"]}
    /\ nkeys = NKeys
    /\ api_keys = ConfiguredKeys(nkeys)
    /\ key_rotation_delay \in ConfiguredDelays
    /\ S3Init
    /\ RunInit
    /\ ClientInit
    /\ DirectInit

\* the steps of one thread inside process_image_with_gemini
CallerStep(t) ==
    \/ \E mr \in 0..MaxRetries : start_call(t, mr)
    \/ limiter_enter(t)
    \/ limiter_wake(t)
    \/ limiter_append(t)
    \/ begin_loop(t)
    \/ count_request(t)
    \/ send_request(t)
    \/ receive_caption(t)
    \/ \E kind \in Malformed : receive_malformed(t, kind)
    \/ \E e \in ErrorStrings : receive_exception(t, e)
    \/ count_rate_limit(t)
    \/ mark_key_tried(t)
    \/ rotate_enter(t)
    \/ rotate_api_key(t)
    \/ rotation_continue(t)
    \/ retry_or_give_up(t)
    \/ backoff_continue(t)
    \/ finish_call(t)

NextConfigured == Tick \/ CallerStep(1)

SpecConfigured == InitConfigured /\ [][NextConfigured]_vars

\* a second passes while a thread is inside time.sleep
TickWhileSleeping ==
    /\ \E t \in Callers :
          /\ cpc[t] \in {"limiter_sleep", "initial_sleep", "rotation_sleep",
                         "backoff_sleep"}
          /\ wake[t] > now
    /\ now' = now + 1
    /\ UNCHANGED <<calls, limiter_lock, current_key_index, key_stats, cpc, attempt,
                   keys_tried, max_retries, wake, solo, reqlog, cret, cerr,
                   requests, ncalls, runVars, rotVars>>

\* a GeminiClient over 1..NKeys credentials
InitCall ==
    /\ inputFiles = {[base |-> "a", ext |-> "png"]}
    /\ nkeys \in 1..NKeys
    /\ api_keys = ConfiguredKeys(nkeys)
    /\ key_rotation_delay = DEFAULT_KEY_ROTATION_DELAY
    /\ S3Init
    /\ RunInit
    /\ ClientInit
    /\ DirectInit

\* one thread calls process_image_with_gemini again and again
NextCall == TickWhileSleeping \/ CallerStep(1)

\* the calls of a thread the interpreter keeps running, on a clock that
\* advances while the thread sleeps
SpecCall ==
    /\ InitCall
    /\ [][NextCall]_vars
    /\ WF_vars(TickWhileSleeping)
    /\ WF_vars(CallerStep(1))


\* a GeminiClient over 1..NKeys credentials whose rotate_api_key is called
\* by several threads
InitRotate ==
    /\ inputFiles = {[base |-> "a", ext |-> "png"]}
    /\ nkeys \in 1..NKeys
    /\ api_keys = ConfiguredKeys(nkeys)
    /\ key_rotation_delay = DEFAULT_KEY_ROTATION_DELAY
    /\ S3Init
    /\ RunInit
    /\ ClientInit
    /\ DirectInit

NextRotate ==
    \E t \in Callers :
        \/ call_rotate(t)
        \/ rotate_enter(t)
        \/ rotate_api_key(t)
        \/ take_rotated(t)

SpecRotate == InitRotate /\ [][NextRotate]_vars

(***************************************************************************)
(* One batch of ImageProcessor on a fresh disk, where the service call,    *)
(* the output write and the checkpoint write can raise, and where the      *)
(* holder of the processor can call set_shutdown_flag(True) while the      *)
(* batch runs.                                                             *)
(***************************************************************************)
\* image_processor.set_shutdown_flag(True) from another thread
set_shutdown_flag_direct ==
    /\ mainpc \in {"submit", "wait"}
    /\ ~proc_shutdown
    /\ proc_shutdown' = TRUE
    /\ UNCHANGED <<diskVars, mainpc, mode, retry_errors, shutdown_requested,
                   processed_files, tasks, nsubmitted, queue, pbar, runs, removed,
                   killed, poolVars, clientVars>>

NextProcessor ==
    \/ StartRun("process", FALSE, 1)
    \/ load_checkpoint
    \/ count_and_prepare
    \/ set_shutdown_flag
    \/ submit
    \/ wait_for_pool
    \/ final_scan_and_remove
    \/ exit_process
    \/ signal_handler
    \/ set_shutdown_flag_direct
    \/ \E w \in Workers :
          \/ PoolStep(w)
          \/ process_image(w, FALSE)
          \/ process_image_raises(w)
          \/ open_checkpoint_raises(w)
          \/ dump_checkpoint_raises(w)

SpecProcessor == Init /\ [][NextProcessor]_vars

(***************************************************************************)
(* The start of main() over every list of configured credentials, empty    *)
(* entries included, on a fresh disk or on the disk an interrupted run     *)
(* left; one run follows when a credential is usable.                      *)
(***************************************************************************)
\* the values of config.GENAI_API_KEYS
KeyLists == UNION {[1..n -> {"", "AIza"}] : n \in 0..NKeys}

\* a.png was captioned and checkpointed by an earlier run
DiskAfterInterruptedRun ==
    /\ outputs = [b \in Bases |-> IF b = "a" THEN CaptionClean ELSE NoFile]
    /\ ckpt = CkptOf({[base |-> "a", ext |-> "png"]})

InitStartup ==
    /\ inputFiles \in InputDirs
    /\ api_keys \in KeyLists
    /\ nkeys = Len(api_keys)
    /\ key_rotation_delay = DEFAULT_KEY_ROTATION_DELAY
    /\ S3Init
    /\ \/ outputs = [b \in Bases |-> NoFile] /\ ckpt = CkptAbsent
       \/ DiskAfterInterruptedRun
    /\ mainpc = "idle"
    /\ mode = "none"
    /\ retry_errors = FALSE
    /\ shutdown_requested = FALSE
    /\ proc_shutdown = FALSE
    /\ processed_files = {}
    /\ tasks = <<>>
    /\ nsubmitted = 0
    /\ queue = <<>>
    /\ pbar = 0
    /\ runs = 0
    /\ removed = FALSE
    /\ killed = FALSE
    /\ PoolIdle
    /\ ClientInit
    /\ DirectInit

\* main(): validate_api_keys logs the error and calls sys.exit(1)
validate_api_keys_exits ==
    /\ mainpc = "idle"
    /\ runs < 1
    /\ NoValidKeys(api_keys)
    /\ mainpc' = "exit_1"
    /\ runs' = runs + 1
    /\ UNCHANGED <<diskVars, mode, retry_errors, shutdown_requested, proc_shutdown,
                   processed_files, tasks, nsubmitted, queue, pbar, removed,
                   killed, poolVars, clientVars>>

\* a thread constructs GeminiClient() over the configured list
GeminiClient_init(t) ==
    /\ cpc[t] = "idle"
    /\ cpc' = [cpc EXCEPT ![t] = IF NoValidKeys(api_keys) THEN "ValueError"
                                  ELSE "constructed"]
    /\ UNCHANGED <<now, calls, limiter_lock, current_key_index, key_stats, attempt,
                   keys_tried, max_retries, wake, solo, reqlog, cret, cerr,
                   requests, ncalls, runVars, rotVars>>

NextStartup ==
    \/ StartRun("process", FALSE, 1)
    \/ validate_api_keys_exits
    \/ \E t \in Callers : GeminiClient_init(t)
    \/ load_checkpoint
    \/ count_and_prepare
    \/ set_shutdown_flag
    \/ submit
    \/ wait_for_pool
    \/ final_scan_and_remove
    \/ exit_process
    \/ \E w \in Workers :
          \/ PoolStep(w)
          \/ process_image(w, FALSE)
          \/ process_image_raises(w)

SpecStartup == InitStartup /\ [][NextStartup]_vars

(***************************************************************************)
(* One run of process_directory without a shutdown request, every service  *)
(* call returning and every output written; the threads are scheduled      *)
(* fairly.                                                                 *)
(***************************************************************************)
\* the disks of InitStartup with the configured credentials
InitOnce ==
    /\ InitStartup
    /\ api_keys = ConfiguredKeys(NKeys)

NextOnce ==
    \/ StartRun("process", FALSE, 1)
    \/ load_checkpoint
    \/ count_and_prepare
    \/ set_shutdown_flag
    \/ submit
    \/ wait_for_pool
    \/ final_scan_and_remove
    \/ exit_process
    \/ \E w \in Workers :
          \/ take_task(w)
          \/ check_shutdown(w)
          \/ process_image(w, FALSE)
          \/ write_output(w)
          \/ acquire_lock(w)
          \/ add_processed(w)
          \/ open_checkpoint(w)
          \/ open_checkpoint_raises(w)
          \/ dump_checkpoint(w)
          \/ dump_checkpoint_raises(w)
          \/ close_checkpoint(w)
          \/ except_log(w)
          \/ finally_update(w)

\* the interpreter keeps running every thread that can take a step
SpecOnce == InitOnce /\ [][NextOnce]_vars /\ WF_vars(NextOnce)

(***************************************************************************)
(* main_s3.process_s3_worker_mode: the main thread takes the images of a   *)
(* worker file one after another.  inputFiles holds the relative paths of  *)
(* the assigned S3 keys, tasks the list remaining_images.                  *)
(***************************************************************************)
\* what process_s3_worker_mode leaves alone in GeminiClient and RateLimiter
s3ClientFrame == <<now, calls, limiter_lock, current_key_index, key_stats, cpc,
                   attempt, keys_tried, max_retries, wake, solo, reqlog, cret,
                   cerr, requests, ncalls, nkeys, api_keys, key_rotation_delay,
                   key_rotation_lock, old_index, rret, nrotcalls, directVars>>
\* what a step of the loop body leaves alone
s3Frame == <<inputFiles, outputs, mode, retry_errors, shutdown_requested,
             proc_shutdown, tasks, nsubmitted, queue, runs, removed, killed,
             poolVars, s3ClientFrame>>

\* json.loads raises JSONDecodeError
JSONDecodeError == {"JSONDecodeError"}

\* json.loads(caption): the keys of an object with one string member, or
\* JSONDecodeError for a text that is not JSON
json_loads(text) ==
    IF /\ Len(text) >= 8
       /\ SubSeq(text, 1, 2) = <<"{", "\"">>
       /\ SubSeq(text, 4, 6) = <<"\"", ":", "\"">>
       /\ SubSeq(text, Len(text) - 1, Len(text)) = <<"\"", "}">>
    THEN {text[3]}
    ELSE JSONDecodeError

\* main_s3.is_error_response
is_error_response(text) ==
    IF text = <<>> THEN TRUE
    ELSE LET parsed == json_loads(text)
         IN  IF parsed = JSONDecodeError THEN FALSE ELSE "error" \in parsed

\* main(): a process in worker mode starts
s3_start ==
    /\ mainpc = "idle"
    /\ runs < MaxRuns
    /\ ~NoValidKeys(api_keys)
    /\ ProcessClear
    /\ mode' = "s3_worker"
    /\ retry_errors' = FALSE
    /\ runs' = runs + 1
    /\ killed' = FALSE
    /\ caption' = NoCaption
    /\ img_pos' = 0
    /\ mainpc' = "s3_load"
    /\ UNCHANGED <<diskVars, s3ClientFrame>>

\* load_checkpoint and the filter of the assigned images; pickle.load of a
\* truncated file raises and the process exits
s3_load_and_filter ==
    /\ mainpc = "s3_load"
    /\ IF ckpt.state = "truncated"
       THEN /\ mainpc' = "returned"
            /\ UNCHANGED <<processed_files, tasks>>
       ELSE /\ processed_files' = ckpt.ids
            /\ tasks' = get_pending_files(inputFiles, ckpt.ids)
            /\ mainpc' = IF tasks' = <<>> THEN "returned" ELSE "s3_loop"
    /\ UNCHANGED <<diskVars, mode, retry_errors, shutdown_requested, proc_shutdown,
                   nsubmitted, queue, pbar, runs, removed, killed, poolVars,
                   caption, img_pos, s3ClientFrame>>

\* for img_key in remaining_images, with the shutdown test
s3_next_image ==
    /\ mainpc = "s3_loop"
    /\ IF shutdown_requested \/ img_pos = Len(tasks)
       THEN /\ mainpc' = "returned"
            /\ UNCHANGED <<img_pos, caption>>
       ELSE /\ img_pos' = img_pos + 1
            /\ caption' = NoCaption
            /\ mainpc' = "s3_download"
    /\ UNCHANGED <<ckpt, processed_files, pbar, s3Frame>>

\* s3_client.download_image(img_key, temp_path) returns True or False, as its
\* caller expects of it
s3_download_image(ok) ==
    /\ mainpc = "s3_download"
    /\ mainpc' = IF ok THEN "s3_caption" ELSE "s3_loop"
    /\ UNCHANGED <<ckpt, processed_files, pbar, caption, img_pos, s3Frame>>

\* caption = gemini_client.process_image_with_gemini(temp_path) and the test
\* of the caption
s3_process_image ==
    /\ mainpc = "s3_caption"
    /\ \E r \in ClientReturns(PathText(tasks[img_pos])) :
          /\ caption' = r
          /\ mainpc' = IF r # <<>> /\ ~is_error_response(r)
                       THEN "s3_upload" ELSE "s3_loop"
    /\ UNCHANGED <<ckpt, processed_files, pbar, img_pos, s3Frame>>

\* s3_client.upload_caption(caption_temp_path, caption_key) returns True or
\* False, as its caller expects of it
s3_upload_caption(ok) ==
    /\ mainpc = "s3_upload"
    /\ mainpc' = IF ok THEN "s3_mark" ELSE "s3_loop"
    /\ UNCHANGED <<ckpt, processed_files, pbar, caption, img_pos, s3Frame>>

\* processed_files.add(relative_path)
s3_add_processed ==
    /\ mainpc = "s3_mark"
    /\ processed_files' = processed_files \cup {tasks[img_pos]}
    /\ mainpc' = "s3_save"
    /\ UNCHANGED <<ckpt, pbar, caption, img_pos, s3Frame>>

\* file_manager.save_checkpoint(processed_files, checkpoint_file) and
\* pbar.update(1)
s3_save_checkpoint ==
    /\ mainpc = "s3_save"
    /\ ckpt' = CkptOf(processed_files)
    /\ pbar' = pbar + 1
    /\ mainpc' = "s3_loop"
    /\ UNCHANGED <<processed_files, caption, img_pos, s3Frame>>

\* a statement of the loop body raises (an S3Client without the method
\* called, a failing temporary file, ...): except Exception, continue
s3_except_continue ==
    /\ mainpc \in {"s3_download", "s3_caption", "s3_upload", "s3_save"}
    /\ mainpc' = "s3_loop"
    /\ UNCHANGED <<ckpt, processed_files, pbar, caption, img_pos, s3Frame>>

InitS3 == InitOnce

\* runs of process_s3_worker_mode over one checkpoint, with signals
NextS3 ==
    \/ s3_start
    \/ s3_load_and_filter
    \/ s3_next_image
    \/ \E ok \in BOOLEAN : s3_download_image(ok)
    \/ s3_process_image
    \/ \E ok \in BOOLEAN : s3_upload_caption(ok)
    \/ s3_add_processed
    \/ s3_save_checkpoint
    \/ s3_except_continue
    \/ signal_handler
    \/ exit_process

SpecS3 == InitS3 /\ [][NextS3]_vars



(***************************************************************************)
(* Direct calls of FileManager.save_checkpoint, load_checkpoint and        *)
(* remove_checkpoint by one thread.  The set is drawn by Init.  The file   *)
(* holds the opcodes pickle writes for a set of str; the loader runs them  *)
(* on its stack.                                                           *)
(***************************************************************************)
MaxSaved == 3

\* the orders in which iterating over the set S can yield its elements
Orders(S) ==
    {f \in [1..Cardinality(S) -> S] :
        \A i, j \in 1..Cardinality(S) : i # j => f[i] # f[j]}

Opcode(op, arg) == [op |-> op, arg |-> arg]

\* pickle.dump(processed_files, f) for a set iterated in the given order: an
\* empty set gets no MARK ... ADDITEMS batch
pickle_dump(order) ==
    <<Opcode("PROTO", NoTask), Opcode("EMPTY_SET", NoTask)>>
    \o (IF order = <<>>
        THEN <<>>
        ELSE <<Opcode("MARK", NoTask)>>
             \o [i \in 1..Len(order) |-> Opcode("UNICODE", order[i])]
             \o <<Opcode("ADDITEMS", NoTask)>>)
    \o <<Opcode("STOP", NoTask)>>

\* the checkpoint file holding these bytes
CkptPickle(bytes) == [state |-> "pickle", bytes |-> bytes]

\* the entries of the unpickler's stack
StackSet(ids) == [kind |-> "set", ids |-> ids, id |-> NoTask]
StackStr(id) == [kind |-> "str", ids |-> {}, id |-> id]
StackMark == [kind |-> "mark", ids |-> {}, id |-> NoTask]

\* the position of the topmost mark
RECURSIVE TopMark(_, _)
TopMark(stack, i) ==
    IF i = 0 \/ stack[i].kind = "mark" THEN i ELSE TopMark(stack, i - 1)

\* the unpickler: one opcode after the other until STOP
RECURSIVE Unpickle(_, _)
Unpickle(bytes, stack) ==
    LET o == Head(bytes)
        rest == Tail(bytes)
    IN  CASE o.op = "PROTO" -> Unpickle(rest, stack)
          [] o.op = "EMPTY_SET" -> Unpickle(rest, Append(stack, StackSet({})))
          [] o.op = "MARK" -> Unpickle(rest, Append(stack, StackMark))
          [] o.op = "UNICODE" -> Unpickle(rest, Append(stack, StackStr(o.arg)))
          [] o.op = "ADDITEMS" ->
                LET m == TopMark(stack, Len(stack))
                    items == {stack[k].id : k \in (m + 1)..Len(stack)}
                IN  Unpickle(rest, Append(SubSeq(stack, 1, m - 2),
                                          StackSet(stack[m - 1].ids \cup items)))
          [] o.op = "STOP" -> stack[Len(stack)]

\* a loader that ignores what the file holds
pickle_load_Empty(bytes) == {}

\* pickle.load(f)
pickle_load(bytes) == Unpickle(bytes, <<>>).ids

InitCheckpoint ==
    /\ inputFiles = {[base |-> "a", ext |-> "png"]}
    /\ nkeys = NKeys
    /\ api_keys = ConfiguredKeys(nkeys)
    /\ key_rotation_delay = DEFAULT_KEY_ROTATION_DELAY
    /\ S3Init
    /\ RunInit
    /\ ClientInit
    /\ saved_set \in {S \in SUBSET Identifiers : Cardinality(S) <= MaxSaved}
    /\ loaded = NotLoaded
    /\ backoff_args = NoArgs
    /\ backoff_ret = NoDelay

fmFrame == <<inputFiles, outputs, procVars, poolVars, gemVars, saved_set,
             backoff_args, backoff_ret>>

\* file_manager.save_checkpoint(saved_set)
fm_save_checkpoint ==
    /\ \E order \in Orders(saved_set) : ckpt' = CkptPickle(pickle_dump(order))
    /\ loaded' = NotLoaded
    /\ UNCHANGED fmFrame

\* file_manager.load_checkpoint(): set() when the file does not exist
fm_load_checkpoint ==
    /\ ~loaded.done
    /\ loaded' = [done |-> TRUE,
                  ids |-> IF ckpt.state = "absent" THEN {}
                          ELSE pickle_load(ckpt.bytes)]
    /\ UNCHANGED <<ckpt, fmFrame>>

\* file_manager.remove_checkpoint() on an existing file
fm_remove_checkpoint ==
    /\ ckpt.state # "absent"
    /\ ckpt' = CkptAbsent
    /\ loaded' = NotLoaded
    /\ UNCHANGED fmFrame

NextCheckpoint ==
    \/ fm_save_checkpoint
    \/ fm_load_checkpoint
    \/ fm_remove_checkpoint

SpecCheckpoint == InitCheckpoint /\ [][NextCheckpoint]_vars

(***************************************************************************)
(* Direct calls of exponential_backoff_with_jitter: the arguments are      *)
(* drawn by Init, the one action applies the function.                     *)
(***************************************************************************)
MaxAttempt == 4
\* 0.04 s, 0.08 s, the default 1 s, 2 s
BaseDelays == {4, 8, 100, 200}
\* 0.04 s, 1 s, 4 s, the default 60 s
MaxDelays == {4, 100, 400, 6000}

InitBackoff ==
    /\ inputFiles = {[base |-> "a", ext |-> "png"]}
    /\ nkeys = NKeys
    /\ api_keys = ConfiguredKeys(nkeys)
    /\ key_rotation_delay = DEFAULT_KEY_ROTATION_DELAY
    /\ S3Init
    /\ RunInit
    /\ ClientInit
    /\ saved_set = {}
    /\ loaded = NotLoaded
    /\ backoff_args \in [attempt : 0..MaxAttempt, base_delay : BaseDelays,
                          max_delay : MaxDelays, jitter : BOOLEAN]
    /\ backoff_ret = NoDelay

\* delay = self.exponential_backoff_with_jitter(attempt, base_delay, max_delay, jitter)
call_backoff ==
    /\ backoff_ret = NoDelay
    /\ LET a == backoff_args
           delay == Min(a.base_delay * Pow2(a.attempt), a.max_delay)
       IN  \E u \in JitterDraws(JitterRange(delay)) :
               backoff_ret' = exponential_backoff_with_jitter(
                                  a.attempt, a.base_delay, a.max_delay, a.jitter, u)
    /\ UNCHANGED <<saved_set, loaded, backoff_args, runVars, gemVars>>

NextBackoff == call_backoff

SpecBackoff == InitBackoff /\ [][NextBackoff]_vars

(***************************************************************************)
(* Properties of the run (Spec, SpecBatch).                                *)
(***************************************************************************)
\* the images whose output destination no other input image shares
OwnOutput(id) == \A other \in inputFiles : other.base = id.base => other = id

\* the positions of process_directory after startup reconciliation
AfterReconcile == {"count", "set_flag", "submit", "wait", "final", "returned"}

\* C1: the checkpoint file is removed at the end of process_directory only when
\* no shutdown was requested and the final scan found no erroring output
C1_RemovedOnlyAfterCleanRun ==
    (mainpc = "returned" /\ removed) =>
        (~shutdown_requested /\ scan_for_error_files(outputs) = {})

\* C2: once the signal handler has set the flag, no task that has not started
\* passes the top of process_and_save into the service call, and no further
\* task is submitted
C2_ShutdownObservedByPool ==
    [][shutdown_requested =>
          /\ nsubmitted' <= nsubmitted
          /\ \A w \in Workers : wpc[w] = "top" => wpc'[w] \in {"top", "idle"}]_vars

\* C3: no two workers are inside the add-and-write-checkpoint section at once,
\* and a checkpoint written while no worker is inside holds every identifier
\* added so far
C3_SaveSectionExclusive ==
    /\ Cardinality({w \in Workers : wpc[w] \in SaveSection}) <= 1
    /\ (/\ mainpc \in {"submit", "wait", "final"}
        /\ \A w \in Workers : wpc[w] \notin SaveSection
        /\ ckpt.state = "valid") => processed_files \subseteq ckpt.ids

\* C4: after a kill at any point, load_checkpoint finds no file or a file it
\* can load
C4_CheckpointLoadableAfterKill ==
    (mainpc = "idle" /\ killed) => ckpt.state # "truncated"

\* C7 as claimed: after startup reconciliation an item that has an output is in
\* ProcessedSet if and only if that output has no error marker
C7_ProcessedIffCleanOutput ==
    (mode = "process" /\ mainpc \in AfterReconcile) =>
        \A id \in inputFiles :
            outputs[id.base] # NoFile =>
                (id \in processed_files <=> ~has_error_content(outputs[id.base]))

\* C7 as amended: an identifier in ProcessedSet (in memory or in the checkpoint
\* file) whose output destination no other input image shares has an output
\* without error marker
C7_ProcessedHaveCleanOutput ==
    \A id \in processed_files \cup ckpt.ids :
        OwnOutput(id) =>
            /\ outputs[id.base] # NoFile
            /\ ~has_error_content(outputs[id.base])

\* C7 witness: a second run, past reconciliation, with a processed item and an
\* erroring output of another item
C7_Witness ==
    /\ runs = 2
    /\ mode = "process"
    /\ retry_errors
    /\ mainpc = "wait"
    /\ \E id \in processed_files : OwnOutput(id)
    /\ scan_for_error_files(outputs) # {}

\* C8: a task whose service call returned a failure marker is classified as
\* erroring, never enters the save section, and its identifier is neither in
\* ProcessedSet nor in the checkpoint
C8_FailureMarkersNeverProcessed ==
    \A w \in Workers :
        (wtask[w] # NoTask /\ wresult[w] \in FailureMarkers(PathText(wtask[w]))) =>
            /\ has_error_content(wresult[w])
            /\ wpc[w] \notin ({"lock"} \cup SaveSection)
            /\ wtask[w] \notin processed_files
            /\ wtask[w] \notin ckpt.ids

\* C8 witness: the fall-through marker of the retry loop was written as an
\* output and its task is past the classifier
C8_Witness ==
    \E w \in Workers :
        /\ wpc[w] = "finally"
        /\ wresult[w] = MarkRetryLoop(PathText(wtask[w]))
        /\ outputs[wtask[w].base] = wresult[w]

\* what load_checkpoint would return from the disk as it is
OnDisk == IF ckpt.state = "valid" THEN ckpt.ids ELSE {}

\* the output of an identifier exists and holds an error marker
OutputErroring(id) ==
    outputs[id.base] # NoFile /\ has_error_content(outputs[id.base])

\* the identifiers of a task list
TaskIds(ts) == {ts[i] : i \in 1..Len(ts)}

\* C16: resume.  When the task list is ready and nothing is dispatched yet,
\* the tasks are exactly the input images whose identifier is not in the
\* loaded ProcessedSet; all dispatched items succeeding, a run that ends
\* without a shutdown request has every input image in ProcessedSet, which
\* still contains the loaded set.
C16_ResumeDispatchesPending ==
    mode = "process" =>
        /\ mainpc = "set_flag" =>
               /\ TaskIds(tasks) = {id \in inputFiles : id \notin processed_files}
               /\ OnDisk \subseteq processed_files
        /\ (mainpc = "returned" /\ ~shutdown_requested) =>
               inputFiles \subseteq processed_files

\* C17: a run on a fresh disk whose n service calls all succeed with an
\* error-free caption and that no shutdown request interrupts ends with
\* ProcessedSet holding exactly the n identifiers, the scan flagging no
\* output, and no checkpoint file; a later run that dispatched tasks ends
\* with their identifiers in ProcessedSet, a clean scan and no checkpoint.
C17_AllSuccessRun ==
    (mode = "process" /\ mainpc = "returned" /\ ~shutdown_requested
        /\ tasks # <<>>) =>
        /\ TaskIds(tasks) \subseteq processed_files
        /\ scan_for_error_files(outputs) = {}
        /\ ckpt.state = "absent"
        /\ runs = 1 =>
              /\ processed_files = inputFiles
              /\ Cardinality(processed_files) = Len(tasks)

\* the first run captioned MaxItems images and removed its checkpoint
C17_Witness ==
    /\ runs = 1
    /\ mainpc = "returned"
    /\ ~shutdown_requested
    /\ Len(tasks) = MaxItems
    /\ processed_files = inputFiles
    /\ removed

\* every input image has an output without error marker
AllItemsComplete ==
    \A id \in inputFiles : outputs[id.base] # NoFile /\ ~OutputErroring(id)

\* C18: a run of process_directory that ends without a shutdown request, with
\* every item completed and no erroring output (the run that finds nothing
\* left to do at startup included) leaves no checkpoint file on disk.
C18_NoCheckpointAfterCompleteRun ==
    (/\ mode = "process"
     /\ mainpc = "returned"
     /\ ~shutdown_requested
     /\ ckpt.state # "truncated"
     /\ AllItemsComplete)
        => ckpt.state = "absent"

\* C19: after mark_error_files_for_retry no identifier left in ProcessedSet has
\* an existing output with an error marker and the set is what the checkpoint
\* file holds before anything is dispatched; the pass removes nothing else:
\* an identifier whose output is error-free or absent stays in the set.
C19_ReconciliationRemovesErroring ==
    /\ [](mode = "process" /\ retry_errors /\ mainpc = "count" =>
            /\ \A id \in processed_files : ~OutputErroring(id)
            /\ OnDisk = processed_files)
    /\ [][(mainpc = "reconcile" /\ mainpc' \in {"reconcile_dump", "count"}) =>
            /\ processed_files' \subseteq processed_files
            /\ \A id \in processed_files :
                   ~OutputErroring(id) => id \in processed_files']_vars

\* C15: the checkpoint is persisted after every successful item: while no
\* worker is inside a save, the on-disk checkpoint contains every identifier
\* of the in-memory ProcessedSet, and when process_images_batch has returned
\* the two are equal.
C15_CheckpointHoldsProcessedSet ==
    mode = "process" =>
        /\ (mainpc \in {"submit", "wait", "final"}
               /\ \A w \in Workers : wpc[w] \notin SaveSection)
               => processed_files \subseteq OnDisk
        /\ mainpc = "final" => OnDisk = processed_files

(***************************************************************************)
(* Properties of the Service Client (SpecClient).                          *)
(***************************************************************************)
\* the outcomes of the requests of t's call, in order
Outcomes(t) == [i \in 1..Len(reqlog[t]) |-> reqlog[t][i].out]
KeysUsed(t) == {reqlog[t][i].key : i \in 1..Len(reqlog[t])}
CountOut(t, out) == Cardinality({i \in 1..Len(reqlog[t]) : reqlog[t][i].out = out})

\* the timestamps of a log that lie in the trailing window at time t_now
InWindow(log, t_now) == {i \in 1..Len(log) : log[i] > t_now - RatePeriod}

\* C5: a call running alone whose every request was rate-limited has used each
\* credential for exactly one request and returns the all-keys-rate-limited
\* marker
C5_AllKeysTriedThenExhausted ==
    \A t \in Callers :
        (/\ cpc[t] = "returned"
         /\ solo[t]
         /\ reqlog[t] # <<>>
         /\ \A i \in 1..Len(reqlog[t]) : reqlog[t][i].out = "rate") =>
            /\ cret[t] = MarkAllKeysRateLimited(ClientPath, cerr[t])
            /\ Len(reqlog[t]) = NKeys
            /\ KeysUsed(t) = Keys

\* C6: a call that saw k < N rate-limit failures and then only retryable
\* server errors has issued max_retries + 1 requests after the last rotation
C6_RotationKeepsRetryBudget ==
    \A t \in Callers :
        (/\ cpc[t] = "returned"
         /\ CountOut(t, "server") >= 1
         /\ \E k \in 0..(NKeys - 1) :
               /\ k < Len(reqlog[t])
               /\ \A i \in 1..Len(reqlog[t]) :
                     reqlog[t][i].out = (IF i <= k THEN "rate" ELSE "server")) =>
            CountOut(t, "server") = max_retries[t] + 1

\* C9: at most max_calls recorded admissions lie in the trailing period, and a
\* caller about to record its admission finds room for it
C9_RateWindow ==
    /\ Cardinality(InWindow(calls, now)) <= RateMaxCalls
    /\ \A t \in Callers :
          cpc[t] = "limiter_append" => Cardinality(InWindow(calls, now)) < RateMaxCalls

\* C9 witness: a caller found the window full, slept with the lock held and
\* recorded its admission behind the aged-out ones
C9_Witness ==
    /\ Len(calls) > RateMaxCalls
    /\ limiter_lock = 0
    /\ \E t \in Callers : cpc[t] = "initial_sleep" /\ calls[Len(calls)] = now

\* C10: at most max_calls requests to the service lie in any trailing period
C10_RequestsBoundedByWindow ==
    Cardinality(InWindow(requests, now)) <= RateMaxCalls

\* the credential the last request of t's call was issued with
KeyOfLastRequest(t) == reqlog[t][Len(reqlog[t])].key

\* C13: when a request of thread t fails, the errors counter that is
\* incremented, and for a rate-limit failure the rate_limits counter, is the
\* one of the credential the request was issued with, whatever rotations
\* other threads made in between.
C13_CountersOnUsedCredential ==
    [][\A t \in Callers : \A k \in 0..(nkeys - 1) :
          /\ (cpc[t] = "await" /\ key_stats'[k].errors > key_stats[k].errors)
                 => k = KeyOfLastRequest(t)
          /\ (cpc[t] = "rate_count"
                 /\ key_stats'[k].rate_limits > key_stats[k].rate_limits)
                 => k = KeyOfLastRequest(t)]_vars

\* C14: within one call, the request after a rate-limit failure goes out on a
\* credential the call has not used before, and the call returns the
\* all-keys-rate-limited marker only after it has issued a request on every
\* credential itself, also while other threads rotate the shared pool.
C14_RotatesToUntriedCredential ==
    \A t \in Callers :
        /\ \A i \in 1..(Len(reqlog[t]) - 1) :
               reqlog[t][i].out = "rate" =>
                   reqlog[t][i + 1].key \notin {reqlog[t][j].key : j \in 1..i}
        /\ (cpc[t] = "returned"
               /\ cret[t] = MarkAllKeysRateLimited(ClientPath, cerr[t]))
               => KeysUsed(t) = 0..(nkeys - 1)

\* a message that holds a rate-limit phrase and a retryable error code
MatchesBoth(e) ==
    /\ \E i \in 1..Len(RATE_LIMIT_MESSAGES) :
            Contains(Lower(e), Lower(RATE_LIMIT_MESSAGES[i]))
    /\ \E i \in 1..Len(RETRYABLE_CODES) : Contains(e, RETRYABLE_CODES[i])

\* C20: an exception whose message matches a rate-limit phrase and a
\* retryable server-error code is handled as a rate limit: the call goes to the
\* rate_limits increment, then rotates or returns the all-keys-rate-limited
\* marker; it never reaches the is_retryable test, a backoff sleep or the
\* error-processing marker with that message.
C20_RateLimitTakesPriority ==
    /\ [](\A t \in Callers :
            /\ cpc[t] \in {"retry_test", "backoff_sleep"} => ~MatchesBoth(cerr[t])
            /\ (cpc[t] = "returned"
                  /\ cret[t] = MarkErrorProcessing(ClientPath, cerr[t]))
                  => ~MatchesBoth(cerr[t]))
    /\ [][\A t \in Callers :
            /\ (cpc[t] = "await" /\ cpc'[t] \in {"rate_count", "retry_test"}
                  /\ MatchesBoth(cerr'[t])) => cpc'[t] = "rate_count"
            /\ (cpc[t] = "rate_count" /\ cpc'[t] # "rate_count"
                  /\ MatchesBoth(cerr[t])) =>
                  /\ cpc'[t] = "rate_tried"
                  /\ \E k \in 0..(nkeys - 1) :
                        key_stats'[k].rate_limits = key_stats[k].rate_limits + 1
            /\ (cpc[t] = "rate_tried" /\ cpc'[t] # "rate_tried"
                  /\ MatchesBoth(cerr[t])) =>
                  \/ cpc'[t] = "rotate"
                  \/ /\ cpc'[t] = "returned"
                     /\ cret'[t] = MarkAllKeysRateLimited(ClientPath, cerr[t])]_vars

\* a call rotated after "429 Too many requests, 503 UNAVAILABLE"
C20_Witness ==
    \E t \in Callers :
        /\ cpc[t] = "rotation_sleep"
        /\ cerr[t] = ErrBoth
        /\ MatchesBoth(ErrBoth)
        /\ \E k \in 0..(nkeys - 1) : key_stats[k].rate_limits >= 1

\* the outcome of the last request of t's call
LastOut(t) == reqlog[t][Len(reqlog[t])].out

\* every request t's call has issued so far failed with a transient server error
AllServerErrors(t) ==
    /\ reqlog[t] # <<>>
    /\ \A i \in 1..Len(reqlog[t]) : reqlog[t][i].out = "server"

\* the sum of a counter over the credentials
RECURSIVE SumStat(_, _, _)
SumStat(stats, field, k) ==
    IF k < 0 THEN 0 ELSE stats[k][field] + SumStat(stats, field, k - 1)

\* C21: in a call whose requests all fail with a transient server error the
\* i-th failure is followed by a backoff sleep computed from attempt i - 1
\* while i <= max_retries, no rotation is made, and the call returns after
\* exactly max_retries + 1 requests the error-processing marker that embeds
\* the message.
C21_RetryableBudget ==
    /\ [](\A t \in Callers : AllServerErrors(t) =>
            /\ Len(reqlog[t]) <= max_retries[t] + 1
            /\ cpc[t] \notin {"rate_count", "rate_tried", "rotate", "rotate_store",
                               "rotation_sleep"}
            /\ keys_tried[t] = {}
            /\ cpc[t] = "backoff_sleep" => attempt[t] = Len(reqlog[t]) - 1
            /\ cpc[t] = "returned" =>
                  /\ Len(reqlog[t]) = max_retries[t] + 1
                  /\ cret[t] = MarkErrorProcessing(ClientPath, cerr[t])
                  /\ Contains(cret[t], cerr[t]))
    /\ [][\A t \in Callers :
            (AllServerErrors(t) /\ cpc[t] = "retry_test" /\ cpc'[t] # "retry_test") =>
                IF Len(reqlog[t]) <= max_retries[t]
                THEN /\ cpc'[t] = "backoff_sleep"
                     /\ (wake'[t] - now) * 100 \in
                            {d - (d % 100) : d \in BackoffDelays(Len(reqlog[t]) - 1)}
                ELSE cpc'[t] = "returned"]_vars

\* a call with max_retries = MaxRetries has returned after MaxRetries + 1
\* server errors
C21_Witness ==
    \E t \in Callers :
        /\ AllServerErrors(t)
        /\ max_retries[t] = MaxRetries
        /\ cpc[t] = "returned"
        /\ Len(reqlog[t]) = MaxRetries + 1

\* C22: a malformed response ends the call: the step that receives it returns
\* a failure marker, adds exactly one to the errors counters, and changes
\* neither the credential index nor any sleep; no request follows it.
C22_MalformedNeverRetried ==
    /\ [](\A t \in Callers :
            \A i \in 1..Len(reqlog[t]) : reqlog[t][i].out = "malformed" =>
                /\ i = Len(reqlog[t])
                /\ cpc[t] = "returned"
                /\ cret[t] \in FailureMarkers(ClientPath))
    /\ [][\A t \in Callers :
            (cpc[t] = "await" /\ cpc'[t] # "await" /\ LastOut(t)' = "malformed") =>
                /\ SumStat(key_stats', "errors", nkeys - 1)
                      = SumStat(key_stats, "errors", nkeys - 1) + 1
                /\ UNCHANGED <<current_key_index, wake, requests, keys_tried>>]_vars

\* a call given a retry budget returned the truncation marker after one request
C22_Witness ==
    \E t \in Callers :
        /\ cpc[t] = "returned"
        /\ max_retries[t] >= 1
        /\ Len(reqlog[t]) = 1
        /\ cret[t] = MarkMaxTokens(ClientPath)

\* a message with no rate-limit phrase and no retryable error code
MatchesNeither(e) ==
    /\ ~\E i \in 1..Len(RATE_LIMIT_MESSAGES) :
            Contains(Lower(e), Lower(RATE_LIMIT_MESSAGES[i]))
    /\ ~\E i \in 1..Len(RETRYABLE_CODES) : Contains(e, RETRYABLE_CODES[i])

\* C23: an exception whose message matches neither list ends the call: the
\* next step returns the error-processing marker embedding the message,
\* without rotation, sleep or further request, whatever is left of the retry
\* budget.
C23_TerminalReturnsImmediately ==
    /\ [](\A t \in Callers :
            /\ cpc[t] \in {"rate_count", "rate_tried", "backoff_sleep"}
                  => ~MatchesNeither(cerr[t])
            /\ \A i \in 1..Len(reqlog[t]) : reqlog[t][i].out = "terminal" =>
                  /\ i = Len(reqlog[t])
                  /\ MatchesNeither(cerr[t])
                  /\ cpc[t] \in {"retry_test", "returned"}
                  /\ cpc[t] = "returned" =>
                        /\ cret[t] = MarkErrorProcessing(ClientPath, cerr[t])
                        /\ Contains(cret[t], cerr[t]))
    /\ [][\A t \in Callers :
            /\ (cpc[t] = "await" /\ cpc'[t] \in {"rate_count", "retry_test"}
                  /\ MatchesNeither(cerr'[t])) => LastOut(t)' = "terminal"
            /\ (cpc[t] = "retry_test" /\ cpc'[t] # "retry_test"
                  /\ MatchesNeither(cerr[t])) =>
                  /\ cpc'[t] = "returned"
                  /\ UNCHANGED <<current_key_index, wake, requests>>]_vars

\* a call with retry budget left returned after "400 INVALID_ARGUMENT"
C23_Witness ==
    \E t \in Callers :
        /\ cpc[t] = "returned"
        /\ cerr[t] = ErrTerminal
        /\ attempt[t] < max_retries[t]
        /\ Len(reqlog[t]) = 1
        /\ LastOut(t) = "terminal"

(***************************************************************************)
(* Properties of rotate_api_key (SpecRotate).                              *)
(***************************************************************************)
\* the direct calls of rotate_api_key that have stored their new index
CompletedRotations ==
    nrotcalls - Cardinality({t \in Callers : cpc[t] \in {"t_rotate", "t_rotate_store"}})

\* C11: concurrent rotate_api_key calls are linearizable: no two calls are
\* between their read of the index and their store at once (so no two hold
\* the same `before' index while it is current), and after k rotations the
\* index is (0 + k) mod N, 0 being the index __init__ sets.
C11_RotationLinearizable ==
    /\ Cardinality({t \in Callers : cpc[t] \in InRotation}) <= 1
    /\ \A t \in Callers : cpc[t] \in InRotation => old_index[t] = current_key_index
    /\ current_key_index = CompletedRotations % nkeys

\* two rotations done, a third inside the with block, another thread waiting
C11_Witness ==
    /\ CompletedRotations >= 2
    /\ \E t, u \in Callers :
          /\ cpc[t] \in InRotation
          /\ cpc[u] = "t_rotate"

\* C12: for a pool of N >= 1 credentials and every starting index, a
\* rotate_api_key call moves the index from old to (old + 1) mod N, the
\* value it returns is current_key_index and lies in 0..N-1, and after N
\* rotations (or any multiple of N) the index is the original one again.
C12_RotateReturnsNextIndex ==
    /\ [](CompletedRotations % nkeys = 0 => current_key_index = 0)
    /\ [][\A t \in Callers :
            (cpc[t] \in InRotation /\ cpc'[t] \notin InRotation) =>
                /\ current_key_index' = (current_key_index + 1) % nkeys
                /\ current_key_index' \in 0..(nkeys - 1)
                /\ current_key_index = nkeys - 1 => current_key_index' = 0
                /\ cpc'[t] = "t_rotated" => rret'[t] = current_key_index']_vars

\* a rotation of a full pool has wrapped from N-1 to 0 and returned 0
C12_Witness ==
    /\ nkeys = NKeys
    /\ CompletedRotations = nkeys
    /\ \E t \in Callers : cpc[t] = "t_rotated" /\ rret[t] = 0

(***************************************************************************)
(* Properties of process_and_save and process_images_batch                 *)
(* (SpecProcessor).                                                        *)
(***************************************************************************)
\* the pool threads inside process_and_save
Busy == {w \in Workers : wpc[w] # "idle"}

\* C24: an exception raised by the service call, the output write or the
\* checkpoint write takes the thread to the except block and from there to the
\* finally block and the end of the task; the raise and the handler leave
\* ProcessedSet, the outputs and the checkpoint as they are, an item whose
\* call or output write raised is not in ProcessedSet, an item in ProcessedSet
\* at the handler has a clean result, and the batch returns only once every
\* submitted item has been through process_and_save.
C24_ExceptionCaughtAtItemBoundary ==
    /\ [](\A w \in Workers :
            (wpc[w] = "except" /\ wtask[w] \in processed_files) =>
                (wresult[w] # <<>> /\ ~ResultHasErrors(wresult[w])))
    /\ [][/\ \A w \in Workers :
              /\ (wpc[w] # "except" /\ wpc'[w] = "except") =>
                    /\ wpc[w] \in {"call", "write", "open", "dump"}
                    /\ UNCHANGED <<processed_files, diskVars, mainpc, queue>>
                    /\ wpc[w] \in {"call", "write"} => wtask[w] \notin processed_files
              /\ (wpc[w] = "except" /\ wpc'[w] # "except") =>
                    /\ wpc'[w] = "finally"
                    /\ UNCHANGED <<processed_files, diskVars, mainpc, queue, wtask>>
                    /\ \A x \in Workers \ {w} : wpc'[x] = wpc[x]
              /\ (wpc[w] = "finally" /\ wpc'[w] # "finally") =>
                    /\ wpc'[w] = "idle"
                    /\ UNCHANGED <<processed_files, diskVars, mainpc, queue>>
          /\ (mainpc = "wait" /\ mainpc' # "wait") =>
                (queue = <<>> /\ Busy = {} /\ pbar = nsubmitted)]_vars

\* the batch returned without shutdown after two items: one left no output,
\* the other was recorded as processed
C24_Witness ==
    /\ mainpc = "final"
    /\ ~proc_shutdown
    /\ nsubmitted = 2
    /\ pbar = 2
    /\ \E i \in 1..Len(tasks) : outputs[tasks[i].base] = NoFile
    /\ processed_files # {}

\* C25: the progress counter counts the tasks that have ended: it is the
\* number of submitted tasks less those queued or running, every task that
\* ends adds exactly one, and nothing else moves it.
C25_ProgressOncePerItem ==
    /\ [](pbar + Len(queue) + Cardinality(Busy) = nsubmitted)
    /\ [][(mainpc # "idle" /\ mainpc' # "idle") =>
            /\ \A w \in Workers :
                  (wpc[w] # "idle" /\ wpc'[w] = "idle") =>
                      (wpc[w] \in {"top", "finally"} /\ pbar' = pbar + 1)
            /\ pbar' # pbar =>
                  /\ pbar' = pbar + 1
                  /\ \E w \in Workers : wpc[w] # "idle" /\ wpc'[w] = "idle"]_vars

\* two tasks ended after a shutdown: one wrote an output with an error
\* marker, the other wrote nothing
C25_Witness ==
    /\ mainpc = "final"
    /\ proc_shutdown
    /\ nsubmitted = 2
    /\ pbar = 2
    /\ \E i, j \in 1..Len(tasks) :
          /\ outputs[tasks[i].base] # NoFile
          /\ has_error_content(outputs[tasks[i].base])
          /\ outputs[tasks[j].base] = NoFile

\* C26: a task that finds the processor's flag set at the top of
\* process_and_save ends at once: the progress counter goes up by one, and the
\* outputs, the checkpoint, ProcessedSet and the Service Client stay as they
\* are.
C26_ShutdownSkipChangesOnlyProgress ==
    [][\A w \in Workers :
          (wpc[w] = "top" /\ proc_shutdown /\ wpc'[w] # "top") =>
              /\ wpc'[w] = "idle"
              /\ pbar' = pbar + 1
              /\ UNCHANGED <<diskVars, processed_files, clientVars>>]_vars

\* with the flag set, one of two submitted tasks has ended and the other is
\* at the top of process_and_save; nothing was written
C26_Witness ==
    /\ proc_shutdown
    /\ nsubmitted = 2
    /\ pbar = 1
    /\ \E w \in Workers : wpc[w] = "top"
    /\ \A b \in Bases : outputs[b] = NoFile
    /\ processed_files = {}
    /\ ckpt.state = "absent"

\* C27: process_images_batch returns only when no submitted task is queued
\* or running, whether or not the processor's flag is set.
C27_BatchWaitsForSubmitted ==
    /\ [](mainpc \in {"final", "fix_final"} =>
            (queue = <<>> /\ Busy = {} /\ pbar = nsubmitted))
    /\ [][(mainpc = "wait" /\ mainpc' # "wait") =>
            (queue = <<>> /\ Busy = {})]_vars

\* the flag is set, the main thread waits, and a task is in its checkpoint
\* update
C27_Witness ==
    /\ mainpc = "wait"
    /\ proc_shutdown
    /\ \E w \in Workers : wpc[w] \in SaveSection

(***************************************************************************)
(* The checkpoint round trip (SpecCheckpoint).                             *)
(***************************************************************************)
\* C28: load_checkpoint returns the set last given to save_checkpoint, the
\* empty set included, and the empty set when there is no checkpoint file.
C28_CheckpointRoundTrip ==
    loaded.done =>
        loaded.ids = (IF ckpt.state = "absent" THEN {} ELSE saved_set)

\* a set of MaxSaved identifiers was saved and loaded
C28_Witness ==
    /\ loaded.done
    /\ ckpt.state = "pickle"
    /\ Cardinality(saved_set) = MaxSaved
    /\ loaded.ids = saved_set

(***************************************************************************)
(* Properties of exponential_backoff_with_jitter (SpecBackoff).            *)
(***************************************************************************)
\* 2^attempt, written out
Doubling == <<1, 2, 4, 8, 16, 32, 64, 128>>

\* m = min(base_delay * 2^attempt, max_delay) of the call, in hundredths
BackoffCap ==
    LET p == backoff_args.base_delay * Doubling[backoff_args.attempt + 1]
    IN  IF p <= backoff_args.max_delay THEN p ELSE backoff_args.max_delay

\* C29: with jitter off, base_delay = 1 s and max_delay >= 1 s the function
\* returns min(2^attempt, max_delay) exactly.
C29_BackoffWithoutJitter ==
    (/\ backoff_ret # NoDelay
     /\ ~backoff_args.jitter
     /\ backoff_args.base_delay = 100
     /\ backoff_args.max_delay >= 100)
        => backoff_ret = BackoffCap

\* attempt 4 with max_delay = 4 s: 16 s capped to 4 s
C29_Witness ==
    /\ ~backoff_args.jitter
    /\ backoff_args.base_delay = 100
    /\ backoff_args.attempt = 4
    /\ backoff_args.max_delay = 400
    /\ backoff_ret = 400

\* C30 as stated: with jitter on, every returned delay d has
\* 0.75 m <= d <= 1.25 m and d >= 0.1 s.
C30_JitterBandAndFloor ==
    (backoff_ret # NoDelay /\ backoff_args.jitter) =>
        /\ 3 * BackoffCap <= 4 * backoff_ret
        /\ 4 * backoff_ret <= 5 * BackoffCap
        /\ backoff_ret >= 10

\* C30 amended: with jitter on, d >= 0.1 s and d >= 0.75 m always;
\* d <= 1.25 m when 1.25 m >= 0.1 s, and d = 0.1 s otherwise.
C30_JitterBandAboveFloor ==
    (backoff_ret # NoDelay /\ backoff_args.jitter) =>
        /\ backoff_ret >= 10
        /\ 3 * BackoffCap <= 4 * backoff_ret
        /\ IF 5 * BackoffCap >= 40
           THEN 4 * backoff_ret <= 5 * BackoffCap
           ELSE backoff_ret = 10

\* the defaults at attempt 2 with the largest draw: 4 s + 1 s
C30_Witness ==
    /\ backoff_args.jitter
    /\ backoff_args.base_delay = 100
    /\ backoff_args.max_delay = 6000
    /\ backoff_args.attempt = 2
    /\ backoff_ret = 500

(***************************************************************************)
(* The two classifiers (SpecBatch).                                        *)
(***************************************************************************)
\* C31: ImageProcessor.has_error_content and FileManager.has_error_content
\* give the same verdict on every result a thread holds and on every output
\* on disk.
C31_ClassifiersAgree ==
    /\ \A w \in Workers :
          wresult[w] # <<>> =>
              (has_error_content(wresult[w]) <=> fm_has_error_content(wresult[w]))
    /\ \A b \in Bases :
          outputs[b] # NoFile =>
              (has_error_content(outputs[b]) <=> fm_has_error_content(outputs[b]))

\* the disk holds an output both classifiers flag only through the generic
\* "error" entry, written by a thread that did not record it
C31_Witness ==
    \E b \in Bases :
        /\ outputs[b] # NoFile
        /\ has_error_content(outputs[b])
        /\ fm_has_error_content(outputs[b])
        /\ ~has_error_content_NoGenericEntry(outputs[b])
        /\ processed_files = {}
        /\ mainpc = "final"

(***************************************************************************)
(* The start of the program (SpecStartup).                                 *)
(***************************************************************************)
\* no entry of the configured list is a non-empty credential
AllKeysEmpty == \A i \in 1..Len(api_keys) : api_keys[i] = ""

\* C32: without a non-empty credential the constructor raises ValueError and
\* main() exits with status 1 from its idle state: nothing is loaded,
\* submitted or run and the disk stays as it was.  With a credential the
\* program never takes that exit, a raise inside a task leaves the main
\* thread where it is, and the main thread leaves its wait only for the
\* final scan.
C32_StartupAbortsBeforeWork ==
    /\ [](AllKeysEmpty =>
            /\ mainpc \in {"idle", "exit_1"}
            /\ nsubmitted = 0 /\ queue = <<>> /\ tasks = <<>>
            /\ \A w \in Workers : wpc[w] = "idle"
            /\ processed_files = {}
            /\ \A t \in Callers : cpc[t] \in {"idle", "ValueError"})
    /\ [](~AllKeysEmpty =>
            /\ mainpc # "exit_1"
            /\ \A t \in Callers : cpc[t] # "ValueError")
    /\ [][/\ AllKeysEmpty => UNCHANGED diskVars
          /\ (mainpc # "exit_1" /\ mainpc' = "exit_1") => mainpc = "idle"
          /\ \A w \in Workers :
                (wpc[w] # "except" /\ wpc'[w] = "except") => mainpc' = mainpc
          /\ mainpc = "wait" => mainpc' \in {"wait", "final"}]_vars

\* the list holds one empty entry: main() exited with status 1 and the
\* constructor raised, the checkpoint of the earlier run still on disk
C32_Witness ==
    /\ api_keys = <<"">>
    /\ mainpc = "exit_1"
    /\ \E t \in Callers : cpc[t] = "ValueError"
    /\ ckpt = CkptOf({[base |-> "a", ext |-> "png"]})
    /\ outputs["a"] = CaptionClean

(***************************************************************************)
(* ProcessedSet during a run (Spec).                                       *)
(***************************************************************************)
\* C33: an identifier leaves the in-memory ProcessedSet only in
\* mark_error_files_for_retry or when the process ends (its memory is gone);
\* from the end of the reconciliation to the end of the run every step keeps
\* every identifier of the set.
C33_ProcessedSetAppendOnly ==
    [][(mainpc # "idle" /\ mainpc' # "idle" /\ mainpc # "reconcile")
          => processed_files \subseteq processed_files']_vars

\* in a run that reconciles, a thread has just added the second identifier
C33_Witness ==
    /\ mainpc = "wait"
    /\ retry_errors
    /\ Cardinality(processed_files) = 2
    /\ \E w \in Workers : wpc[w] = "open" /\ wtask[w] \in processed_files

(***************************************************************************)
(* The configured inter-rotation delay (SpecConfigured).                   *)
(***************************************************************************)
\* C34: the wait a thread starts after a rotation inside
\* process_image_with_gemini is the key_rotation_delay process_directory
\* was given.
C34_ConfiguredDelayApplied ==
    [][\A t \in Callers :
          (cpc[t] = "rotate_store" /\ cpc'[t] = "rotation_sleep") =>
              wake'[t] = now + key_rotation_delay]_vars


\* the tasks in the queue or held by a pool thread, oldest position first
InFlight ==
    {queue[i] : i \in 1..Len(queue)} \cup {wtask[w] : w \in Busy}

PendingImages == {id \in inputFiles : IsImage(id) /\ id \notin processed_files}

\* C37: at the test of remaining_files in process_directory, an input image
\* whose identifier is not in ProcessedSet is put on the task list and the
\* run goes on to the dispatch; the run returns there only when every input
\* image has its identifier in ProcessedSet.
C37_SkipOnlyWhenNothingPending ==
    [][(mode = "process" /\ mainpc = "count" /\ mainpc' # "count"
        /\ PendingImages # {}) =>
            /\ mainpc' = "set_flag"
            /\ PendingImages \subseteq TaskIds(tasks')]_vars


\* C38: in every reachable state, for every credential k,
\* rate_limits[k] <= errors[k] <= requests[k], and no step decreases a counter.
C38_CountersConsistent ==
    /\ [](\A k \in 0..(nkeys - 1) :
            /\ key_stats[k].rate_limits <= key_stats[k].errors
            /\ key_stats[k].errors <= key_stats[k].requests)
    /\ [][\A k \in 0..(nkeys - 1) :
            /\ key_stats'[k].requests >= key_stats[k].requests
            /\ key_stats'[k].errors >= key_stats[k].errors
            /\ key_stats'[k].rate_limits >= key_stats[k].rate_limits]_vars


\* the loop of process_s3_worker_mode is running
InS3Loop == mode = "s3_worker" /\ mainpc \notin {"idle", "s3_load", "returned"}

====
